---- MODULE Spec2Model ----
(***************************************************************************)
(* Circular-economy profit model and grid builders                         *)
(* (src/unnamed/part_002 = the Fig1..Fig6 snapshot of utils/model.js,      *)
(*  src/utils/model.js   = the older snapshot with buildJointChoiceGrid).  *)
(*                                                                         *)
(* JavaScript Numbers are modelled as exact rationals extended with NaN    *)
(* and +/-Infinity.  Parameters (durabilities, costs, axis values) are     *)
(* small reduced fractions over machine integers (R-values); profits are   *)
(* fractions over multi-limb naturals (Q-values), because their            *)
(* denominators do not fit a machine integer.  Rounding of IEEE doubles    *)
(* is not modelled.                                                        *)
(***************************************************************************)
EXTENDS Integers, Sequences, FiniteSets, TLC

VARIABLES call, phase, ret, evals

vars == <<call, phase, ret, evals>>

(***************************************************************************)
(* R-values: reduced fractions n/d over integers, d > 0; d = 0 is NaN.     *)
(***************************************************************************)
RECURSIVE Gcd(_, _)
Gcd(a, b) == IF b = 0 THEN a ELSE Gcd(b, a % b)

Abs(x) == IF x < 0 THEN -x ELSE x

Lcm(a, b) == (a \div Gcd(a, b)) * b

RNaN == [n |-> 0, d |-> 0]

RIsNaN(x) == x.d = 0

R(n, d) ==
  IF d = 0 THEN RNaN
  ELSE LET g == Gcd(Abs(n), Abs(d))
           s == IF d < 0 THEN -1 ELSE 1
       IN [n |-> s * (n \div g), d |-> s * (d \div g)]

RInt(n) == [n |-> n, d |-> 1]

RAdd(x, y) ==
  IF RIsNaN(x) \/ RIsNaN(y) THEN RNaN
  ELSE LET l == Lcm(x.d, y.d)
       IN R(x.n * (l \div x.d) + y.n * (l \div y.d), l)

RNeg(x) == [n |-> -x.n, d |-> x.d]

RSub(x, y) == RAdd(x, RNeg(y))

RMul(x, y) ==
  IF RIsNaN(x) \/ RIsNaN(y) THEN RNaN
  ELSE LET g1 == Gcd(Abs(x.n), y.d)
           g2 == Gcd(Abs(y.n), x.d)
       IN R((x.n \div g1) * (y.n \div g2), (x.d \div g2) * (y.d \div g1))

\* x / y; 0/0 is NaN (the only division by zero the axis code performs)
RDiv(x, y) ==
  IF RIsNaN(x) \/ RIsNaN(y) \/ y.n = 0 THEN RNaN
  ELSE RMul(x, R(y.d, y.n))

\* JS comparisons: false as soon as one side is NaN
RLt(x, y) ==
  /\ ~RIsNaN(x)
  /\ ~RIsNaN(y)
  /\ LET l == Lcm(x.d, y.d) IN x.n * (l \div x.d) < y.n * (l \div y.d)

RGt(x, y) == RLt(y, x)

RGe(x, y) == ~RIsNaN(x) /\ ~RIsNaN(y) /\ ~RLt(x, y)

\* Math.min(x, y): NaN if either is NaN
RMin(x, y) ==
  IF RIsNaN(x) \/ RIsNaN(y) THEN RNaN ELSE IF RLt(y, x) THEN y ELSE x

(***************************************************************************)
(* Multi-limb naturals: little-endian sequences of limbs in 0..Base-1,     *)
(* most significant limb nonzero; <<>> is zero.                            *)
(***************************************************************************)
Base == 100 * 100

RECURSIVE NatToLimbs(_)
NatToLimbs(n) == IF n = 0 THEN <<>> ELSE <<n % Base>> \o NatToLimbs(n \div Base)

LHead(a) == IF a = <<>> THEN 0 ELSE Head(a)

LTail(a) == IF a = <<>> THEN <<>> ELSE Tail(a)

RECURSIVE LAddC(_, _, _)
LAddC(a, b, cy) ==
  IF a = <<>> /\ b = <<>> THEN (IF cy = 0 THEN <<>> ELSE <<cy>>)
  ELSE LET x == LHead(a) + LHead(b) + cy
       IN <<x % Base>> \o LAddC(LTail(a), LTail(b), x \div Base)

LAdd(a, b) == LAddC(a, b, 0)

RECURSIVE LStrip(_)
LStrip(a) ==
  IF a = <<>> THEN a
  ELSE IF a[Len(a)] = 0 THEN LStrip(SubSeq(a, 1, Len(a) - 1)) ELSE a

\* a - b - bw for a >= b + bw, before stripping
RECURSIVE LSubB(_, _, _)
LSubB(a, b, bw) ==
  IF a = <<>> THEN <<>>
  ELSE LET x == Head(a) - LHead(b) - bw
       IN IF x < 0 THEN <<x + Base>> \o LSubB(Tail(a), LTail(b), 1)
          ELSE <<x>> \o LSubB(Tail(a), LTail(b), 0)

LSub(a, b) == LStrip(LSubB(a, b, 0))

\* a * x + cy for a limb x
RECURSIVE LMulS(_, _, _)
LMulS(a, x, cy) ==
  IF a = <<>> THEN (IF cy = 0 THEN <<>> ELSE <<cy>>)
  ELSE LET p == Head(a) * x + cy
       IN <<p % Base>> \o LMulS(Tail(a), x, p \div Base)

LShift(a) == IF a = <<>> THEN a ELSE <<0>> \o a

RECURSIVE LMul(_, _)
LMul(a, b) ==
  IF a = <<>> \/ b = <<>> THEN <<>>
  ELSE LAdd(IF Head(a) = 0 THEN <<>> ELSE LMulS(b, Head(a), 0),
            LShift(LMul(Tail(a), b)))

\* compare limbs from position i downwards: -1, 0 or 1
RECURSIVE LCmpAt(_, _, _)
LCmpAt(a, b, i) ==
  IF i = 0 THEN 0
  ELSE IF a[i] < b[i] THEN -1
  ELSE IF a[i] > b[i] THEN 1
  ELSE LCmpAt(a, b, i - 1)

LCmp(a, b) ==
  IF Len(a) < Len(b) THEN -1
  ELSE IF Len(a) > Len(b) THEN 1
  ELSE LCmpAt(a, b, Len(a))

(***************************************************************************)
(* Q-values: k = "fin": s * n / d with sign s in {-1,0,1}, limbs n, d > 0; *)
(* k = "inf": s * Infinity; k = "nan": NaN.                                *)
(***************************************************************************)
LOne == <<1>>

QNaN == [k |-> "nan", s |-> 0, n |-> <<>>, d |-> LOne]

QInf(s) == [k |-> "inf", s |-> s, n |-> <<>>, d |-> LOne]

QFin(s, n, d) == [k |-> "fin", s |-> IF n = <<>> THEN 0 ELSE s, n |-> n, d |-> d]

QZero == QFin(0, <<>>, LOne)

Sgn(x) == IF x < 0 THEN -1 ELSE IF x > 0 THEN 1 ELSE 0

\* the integer fraction n/d (d > 0) as a Q-value
QFrac(n, d) == QFin(Sgn(n), NatToLimbs(Abs(n)), NatToLimbs(d))

QOfR(x) == IF RIsNaN(x) THEN QNaN ELSE QFrac(x.n, x.d)

QIsNaN(x) == x.k = "nan"

QIsFinite(x) == x.k = "fin"

QNeg(x) == [x EXCEPT !.s = -x.s]

\* signed sum of two magnitudes
SAdd(s1, m1, s2, m2, d) ==
  IF s1 = 0 THEN QFin(s2, m2, d)
  ELSE IF s2 = 0 THEN QFin(s1, m1, d)
  ELSE IF s1 = s2 THEN QFin(s1, LAdd(m1, m2), d)
  ELSE LET c == LCmp(m1, m2)
       IN IF c = 0 THEN QFin(0, <<>>, LOne)
          ELSE IF c > 0 THEN QFin(s1, LSub(m1, m2), d)
          ELSE QFin(s2, LSub(m2, m1), d)

QAdd(x, y) ==
  IF QIsNaN(x) \/ QIsNaN(y) THEN QNaN
  ELSE IF x.k = "inf" /\ y.k = "inf" THEN (IF x.s = y.s THEN x ELSE QNaN)
  ELSE IF x.k = "inf" THEN x
  ELSE IF y.k = "inf" THEN y
  ELSE IF x.d = y.d THEN SAdd(x.s, x.n, y.s, y.n, x.d)
  ELSE SAdd(x.s, LMul(x.n, y.d), y.s, LMul(y.n, x.d), LMul(x.d, y.d))

QSub(x, y) == QAdd(x, QNeg(y))

QMul(x, y) ==
  IF QIsNaN(x) \/ QIsNaN(y) THEN QNaN
  ELSE IF x.k = "inf" \/ y.k = "inf"
       THEN (IF x.s * y.s = 0 THEN QNaN ELSE QInf(x.s * y.s))
  ELSE QFin(x.s * y.s, LMul(x.n, y.n), LMul(x.d, y.d))

QDiv(x, y) ==
  IF QIsNaN(x) \/ QIsNaN(y) THEN QNaN
  ELSE IF x.k = "inf" THEN (IF y.k = "inf" THEN QNaN
                            ELSE QInf(x.s * (IF y.s < 0 THEN -1 ELSE 1)))
  ELSE IF y.k = "inf" THEN QZero
  ELSE IF y.s = 0 THEN (IF x.s = 0 THEN QNaN ELSE QInf(x.s))
  ELSE QFin(x.s * y.s, LMul(x.n, y.d), LMul(x.d, y.n))

\* -1, 0, 1 for two values that are not NaN
QCmp(x, y) ==
  IF x.k = "inf" \/ y.k = "inf"
  THEN (IF x.k = "inf" /\ y.k = "inf" THEN Sgn(x.s - y.s)
        ELSE IF x.k = "inf" THEN x.s ELSE -y.s)
  ELSE IF x.s # y.s THEN Sgn(x.s - y.s)
  ELSE IF x.s = 0 THEN 0
  ELSE x.s * LCmp(LMul(x.n, y.d), LMul(y.n, x.d))

\* JS comparisons and strict equality (NaN compares false with everything)
QLt(x, y) == ~QIsNaN(x) /\ ~QIsNaN(y) /\ QCmp(x, y) < 0

QGt(x, y) == QLt(y, x)

QLe(x, y) == ~QIsNaN(x) /\ ~QIsNaN(y) /\ QCmp(x, y) <= 0

QGe(x, y) == QLe(y, x)

QEq(x, y) == ~QIsNaN(x) /\ ~QIsNaN(y) /\ QCmp(x, y) = 0

\* Math.max(x, y): NaN if either is NaN
QMax(x, y) ==
  IF QIsNaN(x) \/ QIsNaN(y) THEN QNaN ELSE IF QLt(x, y) THEN y ELSE x

\* Math.pow(x, 2)
QSquare(x) == QMul(x, x)


(***************************************************************************)
(* The model object.  Fields are R-values.                                 *)
(***************************************************************************)
\* CircularEconomyModel without the clamp: d1L = gamma*d1, d2L = gamma*d2
CircularEconomyModel_noclamp(d1, d2, gamma, c, k) ==
  [d1 |-> d1, d2 |-> d2, gamma |-> gamma, c |-> c, k |-> k,
   d1L |-> RMul(gamma, d1), d2L |-> RMul(gamma, d2),
   d_sum_S |-> RAdd(d1, d2),
   d_sum_L |-> RAdd(RMul(gamma, d1), RMul(gamma, d2))]

CircularEconomyModel(d1, d2, gamma, c, k) ==
  LET d1L == RMin(RMul(gamma, d1), R(999, 1000))
      d2L == RMin(RMul(gamma, d2), R(999, 1000))
  IN [d1 |-> d1, d2 |-> d2, gamma |-> gamma, c |-> c, k |-> k,
      d1L |-> d1L, d2L |-> d2L,
      d_sum_S |-> RAdd(d1, d2),
      d_sum_L |-> RAdd(d1L, d2L)]

\* ClosedForm with a sign slip in the denominator: 8 * (2 - 3*dsum)
ClosedForm_minus(cost, dsum) ==
  QDiv(QSquare(QOfR(RAdd(RSub(RInt(2), RMul(RInt(2), cost)), dsum))),
       QOfR(RMul(RInt(8), RSub(RInt(2), RMul(RInt(3), dsum)))))

\* the closed form shared by profit_SI and profit_LI:
\* Math.pow(2 - 2*cost + dsum, 2) / (8 * (2 + 3*dsum))
ClosedForm(cost, dsum) ==
  QDiv(QSquare(QOfR(RAdd(RSub(RInt(2), RMul(RInt(2), cost)), dsum))),
       QOfR(RMul(RInt(8), RAdd(RInt(2), RMul(RInt(3), dsum)))))

\* profit_SI whose threshold forgets the halving: cost > 1 + d_sum_S
profit_SI_nohalf(m) ==
  LET cost == RMul(RInt(2), m.c)
  IN IF RGt(cost, RAdd(RInt(1), m.d_sum_S)) THEN QZero
     ELSE ClosedForm(cost, m.d_sum_S)

profit_SI(m) ==
  LET cost == RMul(RInt(2), m.c)
  IN IF RGt(cost, RAdd(RInt(1), RDiv(m.d_sum_S, RInt(2)))) THEN QZero
     ELSE ClosedForm(cost, m.d_sum_S)

(***************************************************************************)
(* Lattice searches.  Every point of one search has its profit over the    *)
(* same denominator CD, so the running best is kept as a fraction n/d of   *)
(* machine integers: the initial value (-1e9 or 0) over 1, then profits    *)
(* over CD.                                                                *)
(***************************************************************************)
\* pn/cd > best, for cd > 0 and best.d in {1, cd}
FracGt(pn, cd, best) ==
  IF best.d = cd THEN pn > best.n
  ELSE LET q == pn \div cd
       IN q > best.n \/ (q = best.n /\ pn % cd # 0)

\* LI_point whose new-product price ignores the used quantity: rn = 1 - Ln
LI_point_rn(a, D, p, E, M, CD, i, j) ==
  LET rn == 2 * D * M - 2 * D * i
      ru == a * (M - i - j)
  IN [rn |-> rn, ru |-> ru,
      profit |-> (rn * i + ru * j) * (CD \div (2 * D * M * M))
                 - p * i * (CD \div (E * M))]

\* The prices and the profit at the lattice point (Ln, Lu) = (i/M, j/M) of the
\* leasing-integral search, with dsum = a/D and cost = p/E:
\* rn and ru are numerators over 2*D*M, profit is a numerator over CD
LI_point(a, D, p, E, M, CD, i, j) ==
  LET rn == 2 * D * M - 2 * D * i - a * j
      ru == a * (M - i - j)
  IN [rn |-> rn, ru |-> ru,
      profit |-> (rn * i + ru * j) * (CD \div (2 * D * M * M))
                 - p * i * (CD \div (E * M))]

\* The two loops of _optimize_LI_numerical with S points per axis: the final
\* value of best.  reject says whether the snapshot skips negative prices.
\* (The guard "best.d = 0" never holds, d >= 1; it makes TLC evaluate best
\* before it enters the next iteration.)
LI_search(m, S, reject, best0) ==
  LET cost == RMul(RInt(2), m.c)
      dsum == m.d_sum_L
      M == S - 1
      CD == Lcm(2 * dsum.d * M * M, cost.d * M)
      RECURSIVE loop_j(_, _, _)
      loop_j(i, j, best) ==
        IF j = S \/ best.d = 0 THEN best
        ELSE IF j > i THEN loop_j(i, j + 1, best)                \* Lu > Ln
        ELSE LET pt == LI_point(dsum.n, dsum.d, cost.n, cost.d, M, CD, i, j)
             IN IF reject /\ (pt.rn < 0 \/ pt.ru < 0) THEN loop_j(i, j + 1, best)
                ELSE loop_j(i, j + 1, IF FracGt(pt.profit, CD, best)
                                      THEN [n |-> pt.profit, d |-> CD] ELSE best)
      RECURSIVE loop_i(_, _)
      loop_i(i, best) ==
        IF i = S \/ best.d = 0 THEN best
        ELSE loop_i(i + 1, loop_j(i, 0, best))
  IN IF RIsNaN(cost) \/ RIsNaN(dsum) THEN best0   \* every profit is NaN
     ELSE loop_i(0, best0)

BestNew == [n |-> -1000000000, d |-> 1]

BestOld == [n |-> 0, d |-> 1]

S_LI == 25

steps_LI_old == 31

\* the final best of a lattice search as a Q-value
QOfBest(best) == QFrac(best.n, best.d)

\* part_002: S = 25, best = -1e9, no price test, Math.max(best, 0)
optimize_LI_numerical(m) ==
  QMax(QOfBest(LI_search(m, S_LI, FALSE, BestNew)), QZero)

\* utils/model.js: steps = 31, best = 0, negative prices skipped, best returned
optimize_LI_numerical_old(m) ==
  QOfBest(LI_search(m, steps_LI_old, TRUE, BestOld))

profit_LI(m) ==
  LET CLI == RDiv(RSub(RInt(2), m.d_sum_L), RInt(8))
  IN IF RLt(m.c, CLI) THEN optimize_LI_numerical(m)
     ELSE ClosedForm(RMul(RInt(2), m.c), m.d_sum_L)

\* profit_LI_old that also sends c = C_LI to the optimizer (<= for <)
profit_LI_old_le(m) ==
  LET cost == RMul(RInt(2), m.c)
      CLI == RDiv(RSub(RInt(2), m.d_sum_L), RInt(8))
  IN IF RGe(CLI, m.c) THEN optimize_LI_numerical_old(m)
     ELSE ClosedForm(cost, m.d_sum_L)

profit_LI_old(m) ==
  LET cost == RMul(RInt(2), m.c)
      CLI == RDiv(RSub(RInt(2), m.d_sum_L), RInt(8))
  IN IF RLt(m.c, CLI) THEN optimize_LI_numerical_old(m)
     ELSE ClosedForm(cost, m.d_sum_L)

\* ModulePart without the test of the margin: Math.pow(margin,2)/denominator
ModulePart_noguard(margin, denominator) ==
  QDiv(QSquare(QOfR(margin)), QOfR(denominator))

\* margin <= 0 ? 0 : Math.pow(margin,2)/denominator  (pi1 and pi2 of profit_SM)
ModulePart(margin, denominator) ==
  IF RGe(RInt(0), margin) THEN QZero
  ELSE QDiv(QSquare(QOfR(margin)), QOfR(denominator))

\* profit_SM without the integral fallback: returns pi_modular
profit_SM_nofallback(m) ==
  LET c_mod == m.c
      margin2 == RSub(RSub(RSub(RInt(1), RMul(RInt(2), c_mod)), m.d2), m.k)
      margin1 == RAdd(RAdd(RSub(RSub(RInt(1), RMul(RInt(2), c_mod)), m.k),
                           RMul(RInt(2), m.d2)), m.d1)
  IN QAdd(ModulePart(margin1,
                     RMul(RInt(8), RAdd(RAdd(RInt(1), RMul(RInt(3), m.d1)),
                                        RMul(RInt(4), m.d2)))),
          ModulePart(margin2, RMul(RInt(8), RSub(RInt(1), m.d2))))

\* profit_SM whose pi2 denominator names the wrong durability: 8 * (1 - 2*d1)
profit_SM_d1slip(m) ==
  LET c_mod == m.c
      margin2 == RSub(RSub(RSub(RInt(1), RMul(RInt(2), c_mod)), m.d2), m.k)
      margin1 == RAdd(RAdd(RSub(RSub(RInt(1), RMul(RInt(2), c_mod)), m.k),
                           RMul(RInt(2), m.d2)), m.d1)
  IN QMax(profit_SI(m),
          QAdd(ModulePart(margin1,
                          RMul(RInt(8), RAdd(RAdd(RInt(1), RMul(RInt(3), m.d1)),
                                             RMul(RInt(4), m.d2)))),
               ModulePart(margin2,
                          RMul(RInt(8), RSub(RInt(1), RMul(RInt(2), m.d1))))))

\* profit_SM whose margins add the integration cost: ... + k for ... - k
profit_SM_kplus(m) ==
  LET c_mod == m.c
      margin2 == RAdd(RSub(RSub(RInt(1), RMul(RInt(2), c_mod)), m.d2), m.k)
      margin1 == RAdd(RAdd(RAdd(RSub(RInt(1), RMul(RInt(2), c_mod)), m.k),
                           RMul(RInt(2), m.d2)), m.d1)
  IN QMax(profit_SI(m),
          QAdd(ModulePart(margin1,
                          RMul(RInt(8), RAdd(RAdd(RInt(1), RMul(RInt(3), m.d1)),
                                             RMul(RInt(4), m.d2)))),
               ModulePart(margin2,
                          RMul(RInt(8), RSub(RInt(1), m.d2)))))

profit_SM(m) ==
  LET c_mod == m.c
      margin2 == RSub(RSub(RSub(RInt(1), RMul(RInt(2), c_mod)), m.d2), m.k)
      margin1 == RAdd(RAdd(RSub(RSub(RInt(1), RMul(RInt(2), c_mod)), m.k),
                           RMul(RInt(2), m.d2)), m.d1)
  IN QMax(profit_SI(m),                                          \* pi_integral
          QAdd(ModulePart(margin1,                               \* pi1
                          RMul(RInt(8), RAdd(RAdd(RInt(1), RMul(RInt(3), m.d1)),
                                             RMul(RInt(4), m.d2)))),
               ModulePart(margin2,                               \* pi2
                          RMul(RInt(8), RSub(RInt(1), m.d2)))))

\* LM_point with a sign slip in the (used, new) utility: u_un = (1 - d1L)/2
LM_point_unslip(a1, a2, D, pc, pk, E, M, CD, i, j, kidx) ==
  LET u_nn == 2 * D
      u_un == D - a1
      u_uu == a1 + a2
      ruu == u_uu * (M - (i + j + kidx))
      run == ruu + (u_un - u_uu) * (M - i - j)
      rnn == run + (u_nn - u_un) * (M - i)
      revenue == rnn * i + run * j + ruu * kidx
      c_nn == 2 * pc + pk
      c_un == pc + pk
      c_uu == pk
      cost == c_nn * i + c_un * j + c_uu * kidx
  IN [ruu |-> ruu, run |-> run, rnn |-> rnn,
      profit |-> revenue * (CD \div (2 * D * M * M)) - cost * (CD \div (E * M))]

\* LM_point whose (used, new) bundle is charged k instead of c + k
LM_point_cun(a1, a2, D, pc, pk, E, M, CD, i, j, kidx) ==
  LET u_nn == 2 * D
      u_un == D + a1
      u_uu == a1 + a2
      ruu == u_uu * (M - (i + j + kidx))
      run == ruu + (u_un - u_uu) * (M - i - j)
      rnn == run + (u_nn - u_un) * (M - i)
      revenue == rnn * i + run * j + ruu * kidx
      c_nn == 2 * pc + pk
      c_un == pk
      c_uu == pk
      cost == c_nn * i + c_un * j + c_uu * kidx
  IN [ruu |-> ruu, run |-> run, rnn |-> rnn,
      profit |-> revenue * (CD \div (2 * D * M * M)) - cost * (CD \div (E * M))]

\* The prices and the profit at the lattice point (Lnn, Lun, Luu) =
\* (i/M, j/M, kidx/M) of the leasing-modular search, with d1L = a1/D,
\* d2L = a2/D, c = pc/E, k = pk/E: u_un, u_uu are numerators over 2*D; ruu,
\* run, rnn over 2*D*M; revenue over 2*D*M*M; cost over E*M; profit over CD
LM_point(a1, a2, D, pc, pk, E, M, CD, i, j, kidx) ==
  LET u_nn == 2 * D
      u_un == D + a1
      u_uu == a1 + a2
      ruu == u_uu * (M - (i + j + kidx))
      run == ruu + (u_un - u_uu) * (M - i - j)
      rnn == run + (u_nn - u_un) * (M - i)
      revenue == rnn * i + run * j + ruu * kidx
      c_nn == 2 * pc + pk
      c_un == pc + pk
      c_uu == pk
      cost == c_nn * i + c_un * j + c_uu * kidx
  IN [ruu |-> ruu, run |-> run, rnn |-> rnn,
      profit |-> revenue * (CD \div (2 * D * M * M)) - cost * (CD \div (E * M))]

\* The three loops of profit_LM with steps points per axis: the final value of
\* best.
LM_search(m, steps, best0) ==
  LET D == Lcm(m.d1L.d, m.d2L.d)
      E == Lcm(m.c.d, m.k.d)
      a1 == m.d1L.n * (D \div m.d1L.d)
      a2 == m.d2L.n * (D \div m.d2L.d)
      pc == m.c.n * (E \div m.c.d)
      pk == m.k.n * (E \div m.k.d)
      M == steps - 1
      CD == Lcm(2 * D * M * M, E * M)
      RECURSIVE loop_k(_, _, _, _)
      loop_k(i, j, kidx, best) ==
        IF kidx = steps \/ best.d = 0 THEN best
        ELSE IF j + kidx > i THEN loop_k(i, j, kidx + 1, best)   \* Lun + Luu > Lnn
        ELSE IF i + j + kidx >= M THEN loop_k(i, j, kidx + 1, best)     \* Q >= 1
        ELSE LET pt == LM_point(a1, a2, D, pc, pk, E, M, CD, i, j, kidx)
             IN loop_k(i, j, kidx + 1, IF FracGt(pt.profit, CD, best)
                                       THEN [n |-> pt.profit, d |-> CD] ELSE best)
      RECURSIVE loop_j(_, _, _)
      loop_j(i, j, best) ==
        IF j = steps \/ best.d = 0 THEN best
        ELSE loop_j(i, j + 1, loop_k(i, j, 0, best))
      RECURSIVE loop_i(_, _)
      loop_i(i, best) ==
        IF i = steps \/ best.d = 0 THEN best
        ELSE loop_i(i + 1, loop_j(i, 0, best))
  IN IF RIsNaN(m.d1L) \/ RIsNaN(m.d2L) \/ RIsNaN(m.c) \/ RIsNaN(m.k)
     THEN best0                                    \* every profit is NaN
     ELSE loop_i(0, best0)

steps_LM == 16

steps_LM_old == 21

\* profit_LM without the integral fallback: Math.max(best, 0)
profit_LM_nofallback(m) ==
  QMax(QOfBest(LM_search(m, steps_LM, BestNew)), QZero)

\* part_002: steps = 16, best = -1e9, Math.max(best, pi_LI, 0)
profit_LM(m) ==
  QMax(QMax(QOfBest(LM_search(m, steps_LM, BestNew)), profit_LI(m)), QZero)

\* utils/model.js: steps = 21, best = 0, Math.max(best, pi_LI)
profit_LM_old(m) ==
  QMax(QOfBest(LM_search(m, steps_LM_old, BestOld)), profit_LI_old(m))


(***************************************************************************)
(* Grid builders.  Matrices and axes are functions on 0..N-1; a cell is    *)
(* [t |-> "num", v |-> code], or the sentinel null / NaN.                  *)
(***************************************************************************)
Null == [t |-> "null", v |-> 0]

NaNCell == [t |-> "NaN", v |-> 0]

Num(v) == [t |-> "num", v |-> v]

\* resolution || dflt
OrDefault(resolution, dflt) == IF resolution = 0 THEN dflt ELSE resolution

\* linspace that divides by n instead of n - 1
linspace_n(a, b, n) ==
  [i \in 0..(n - 1) |-> RAdd(a, RMul(RSub(b, a), RDiv(RInt(i), RInt(n))))]

linspace(a, b, n) ==
  [i \in 0..(n - 1) |-> RAdd(a, RMul(RSub(b, a), RDiv(RInt(i), RInt(n - 1))))]

\* the axis arrays of utils/model.js:
\* new Array(N).fill(0).map((_,i) => a + (b-a)*(i/(N-1)))
axis_old(a, b, N) ==
  [i \in 0..(N - 1) |-> RAdd(a, RMul(RSub(b, a), RDiv(RInt(i), RInt(N - 1))))]

\* number of cells of an N x N sweep of (d2, d1) with d2 < d1: one model
\* object is constructed in each
Feasible(xAxis, yAxis, N) ==
  Cardinality({ij \in (0..(N - 1)) \X (0..(N - 1)) : ~RGe(yAxis[ij[1]], xAxis[ij[2]])})

tol_new == QFrac(1, 100000000)

tol_old == QFrac(1, 1000000)

\* Fig1Code that gives a tie to the modular side: (pi_mod >= pi_int) ? 1 : 0
Fig1Code_ge(pi_mod, pi_int, tol) == IF QGe(pi_mod, pi_int) THEN 1 ELSE 0

\* one cell of a buildFig1Grid matrix from the two profits it compares:
\* (pi_mod > pi_int + tol) ? 1 : 0
Fig1Code(pi_mod, pi_int, tol) == IF QGt(pi_mod, QAdd(pi_int, tol)) THEN 1 ELSE 0

\* part_002 buildFig1Grid({ d1, d2, gamma, c, k, resolution })
buildFig1Grid(p) ==
  LET N == OrDefault(p.resolution, 60)
      xAxis == linspace(R(5, 100), R(95, 100), N)
      yAxis == linspace(R(5, 100), R(95, 100), N)
  IN [ret |->
        [Z_sell |-> [i \in 0..(N - 1) |-> [j \in 0..(N - 1) |->
           LET d2v == yAxis[i]
               d1v == xAxis[j]
               m == CircularEconomyModel(d1v, d2v, p.gamma, p.c, p.k)
           IN IF RGe(d2v, d1v) THEN Null
              ELSE Num(Fig1Code(profit_SM(m), profit_SI(m), tol_new))]],
         Z_leas |-> [i \in 0..(N - 1) |-> [j \in 0..(N - 1) |->
           LET d2v == yAxis[i]
               d1v == xAxis[j]
               m == CircularEconomyModel(d1v, d2v, p.gamma, p.c, p.k)
           IN IF RGe(d2v, d1v) THEN Null
              ELSE Num(Fig1Code(profit_LM(m), profit_LI(m), tol_new))]],
         xAxis |-> xAxis, yAxis |-> yAxis, title |-> "Architecture Choice (Fig 1)"],
      evals |-> Feasible(xAxis, yAxis, N)]

\* utils/model.js buildFig1Grid({ d1, d2, gamma, c, k, resolution })
buildFig1Grid_old(p) ==
  LET N == OrDefault(p.resolution, 40)
      xs == axis_old(R(5, 100), R(95, 100), N)
      ys == axis_old(R(5, 100), R(95, 100), N)
  IN [ret |->
        [Z |-> [i \in 0..(N - 1) |-> [j \in 0..(N - 1) |->
           LET dd1 == xs[j]
               dd2 == ys[i]
               m == CircularEconomyModel(dd1, dd2, p.gamma, p.c, p.k)
           IN IF RGe(dd2, dd1) THEN NaNCell
              ELSE Num(Fig1Code(profit_SM(m), profit_SI(m), tol_old))]],
         xAxis |-> xs, yAxis |-> ys,
         title |-> "Figure 1: Modular(1) vs Integral(0)"],
      evals |-> Feasible(xs, ys, N)]

gammas_fig2 == <<R(8, 10), R(12, 10)>>

\* SwitchCode with the two architectures exchanged: arch_S + 2*arch_L
SwitchCode_swap(arch_S, arch_L) ==
  IF arch_S = 0 /\ arch_L = 0 THEN 0
  ELSE IF arch_S = 0 /\ arch_L = 1 THEN 2
  ELSE IF arch_S = 1 /\ arch_L = 0 THEN 1
  ELSE 3

\* the switching code of one cell of buildFig2Grid:
\* 0 = I->I, 1 = I->M, 2 = M->I, 3 = M->M (selling -> leasing)
SwitchCode(arch_S, arch_L) ==
  IF arch_S = 0 /\ arch_L = 0 THEN 0
  ELSE IF arch_S = 0 /\ arch_L = 1 THEN 1
  ELSE IF arch_S = 1 /\ arch_L = 0 THEN 2
  ELSE 3

\* Fig2Cell with the strict test d2v > d1v
Fig2Cell_gt(d1v, d2v, gamma, c) ==
  LET m == CircularEconomyModel(d1v, d2v, gamma, c, RInt(0))
  IN IF RGt(d2v, d1v) THEN Null
     ELSE Num(SwitchCode(IF QGt(profit_SM(m), profit_SI(m)) THEN 1 ELSE 0,
                         IF QGt(profit_LM(m), profit_LI(m)) THEN 1 ELSE 0))

\* one cell of a buildFig2Grid matrix
Fig2Cell(d1v, d2v, gamma, c) ==
  LET m == CircularEconomyModel(d1v, d2v, gamma, c, RInt(0))
  IN IF RGe(d2v, d1v) THEN Null
     ELSE Num(SwitchCode(IF QGt(profit_SM(m), profit_SI(m)) THEN 1 ELSE 0,
                         IF QGt(profit_LM(m), profit_LI(m)) THEN 1 ELSE 0))

\* part_002 buildFig2Grid({ resolution=50, c=0.15 })
buildFig2Grid(p) ==
  LET N == OrDefault(p.resolution, 50)
      xAxis == linspace(R(5, 100), R(95, 100), N)
      yAxis == linspace(R(5, 100), R(95, 100), N)
  IN [ret |->
        [results |-> [g \in 1..Len(gammas_fig2) |->
           [gamma |-> gammas_fig2[g],
            Z |-> [i \in 0..(N - 1) |-> [j \in 0..(N - 1) |->
                    Fig2Cell(xAxis[j], yAxis[i], gammas_fig2[g], p.c)]]]],
         xAxis |-> xAxis, yAxis |-> yAxis,
         title |-> "Architecture Switching (Fig 2)"],
      evals |-> Len(gammas_fig2) * Feasible(xAxis, yAxis, N)]

\* Fig3Codes with the codes of (lease, sell) and (lease, lease) exchanged
Fig3Codes_swapped(pref_I, pref_M) ==
  [Z_int |-> IF pref_I = "L" THEN 1 ELSE 0,
   Z_mod |-> IF pref_M = "L" THEN 1 ELSE 0,
   Z_switch |-> IF pref_I = "L" /\ pref_M = "S" THEN 2
                ELSE IF pref_I = pref_M THEN (IF pref_M = "L" THEN 1 ELSE 0)
                ELSE 0]

\* the three codes buildFig3Grid stores for one cell, from the preferences
\* pref_I = pi_LI > pi_SI ? 'L' : 'S' and pref_M = pi_LM > pi_SM ? 'L' : 'S'
Fig3Codes(pref_I, pref_M) ==
  [Z_int |-> IF pref_I = "L" THEN 1 ELSE 0,
   Z_mod |-> IF pref_M = "L" THEN 1 ELSE 0,
   Z_switch |-> IF pref_I = "L" /\ pref_M = "S" THEN 1
                ELSE IF pref_I = pref_M THEN (IF pref_M = "L" THEN 2 ELSE 0)
                ELSE 0]

\* the per-cell comparison of buildFig3Grid
Fig3Cell(d1, d2, gval, cval) ==
  LET m == CircularEconomyModel(d1, d2, gval, cval, RInt(0))
  IN Fig3Codes(IF QGt(profit_LI(m), profit_SI(m)) THEN "L" ELSE "S",
               IF QGt(profit_LM(m), profit_SM(m)) THEN "L" ELSE "S")

\* the return object of buildFig3Grid from its matrices, indexed by name
Fig3Return(Zs, cAxis, gAxis) ==
  [Z_int |-> Zs["Z_int"], Z_mod |-> Zs["Z_mod"], Z_switch |-> Zs["Z_switch"],
   cAxis |-> cAxis, gAxis |-> gAxis, title |-> "Business Model Choice (Fig 3)"]

\* part_002 buildFig3Grid({ resolution=50, d1=0.5, d2=0.1 })
buildFig3Grid(p) ==
  LET N == OrDefault(p.resolution, 50)
      cAxis == linspace(R(1, 100), R(15, 100), N)
      gAxis == linspace(R(5, 10), R(13, 10), N)
  IN [ret |-> Fig3Return(
                [f \in {"Z_int", "Z_mod", "Z_switch"} |->
                  [i \in 0..(N - 1) |-> [j \in 0..(N - 1) |->
                    Num(Fig3Cell(p.d1, p.d2, gAxis[i], cAxis[j])[f])]]],
                cAxis, gAxis),
      evals |-> N * N]

\* Math.max(...profits)
RECURSIVE MathMaxFrom(_, _)
MathMaxFrom(profits, i) ==
  IF i > Len(profits) THEN QInf(-1)
  ELSE QMax(profits[i], MathMaxFrom(profits, i + 1))

MathMax(profits) == MathMaxFrom(profits, 1)

\* profits.indexOf(v): the first 0-based index whose element === v, else -1
RECURSIVE IndexOfFrom(_, _, _)
IndexOfFrom(profits, v, i) ==
  IF i > Len(profits) THEN -1
  ELSE IF QEq(profits[i], v) THEN i - 1
  ELSE IndexOfFrom(profits, v, i + 1)

indexOf(profits, v) == IndexOfFrom(profits, v, 1)

\* profits.indexOf(Math.max(...profits))
BestIdx(profits) == indexOf(profits, MathMax(profits))

\* the per-cell choice of buildFig4Grid / buildFig5Grid
JointCell(d1, d2, gval, cval, k) ==
  LET m == CircularEconomyModel(d1, d2, gval, cval, k)
  IN BestIdx(<<profit_SI(m), profit_LI(m), profit_SM(m), profit_LM(m)>>)

\* the per-cell choice of utils/model.js buildJointChoiceGrid
JointCell_old(d1, d2, gval, cval, k) ==
  LET m == CircularEconomyModel(d1, d2, gval, cval, k)
  IN BestIdx(<<profit_SI(m), profit_LI_old(m), profit_SM(m), profit_LM_old(m)>>)

\* the cases of buildFig4Grid (delta2 stands for the Greek letter of the name)
cases_fig4 ==
  << [d1 |-> R(28, 100), d2 |-> R(1, 10), name |-> "High Diff (delta2=0.1)"],
     [d1 |-> R(20, 100), d2 |-> R(18, 100), name |-> "Low Diff (delta2=0.18)"] >>

\* part_002 buildFig4Grid({ resolution=60 })
buildFig4Grid(p) ==
  LET N == OrDefault(p.resolution, 60)
      cAxis == linspace(R(1, 100), R(35, 100), N)
      gAxis == linspace(R(5, 10), R(15, 10), N)
  IN [ret |->
        [results |-> [q \in 1..Len(cases_fig4) |->
           [name |-> cases_fig4[q].name,
            Z |-> [i \in 0..(N - 1) |-> [j \in 0..(N - 1) |->
                    Num(JointCell(cases_fig4[q].d1, cases_fig4[q].d2,
                                  gAxis[i], cAxis[j], RInt(0)))]]]],
         cAxis |-> cAxis, gAxis |-> gAxis,
         title |-> "Joint Choice Strategy Map (Fig 4)"],
      evals |-> Len(cases_fig4) * N * N]

kvals_fig5 == <<RInt(0), R(2, 100)>>

\* part_002 buildFig5Grid({ resolution=50 })
buildFig5Grid(p) ==
  LET N == OrDefault(p.resolution, 50)
      cAxis == linspace(R(1, 100), R(35, 100), N)
      gAxis == linspace(R(5, 10), R(15, 10), N)
  IN [ret |->
        [results |-> [q \in 1..Len(kvals_fig5) |->
           [k |-> kvals_fig5[q],
            Z |-> [i \in 0..(N - 1) |-> [j \in 0..(N - 1) |->
                    Num(JointCell(R(28, 100), R(1, 10),
                                  gAxis[i], cAxis[j], kvals_fig5[q]))]]]],
         cAxis |-> cAxis, gAxis |-> gAxis,
         title |-> "Integration cost effect (Fig 5)"],
      evals |-> Len(kvals_fig5) * N * N]

\* utils/model.js buildJointChoiceGrid({ d1, d2, gamma, c, k, resolution })
buildJointChoiceGrid(p) ==
  LET N == OrDefault(p.resolution, 40)
      c_range == axis_old(R(1, 100), R(35, 100), N)
      g_range == axis_old(R(5, 10), R(15, 10), N)
  IN [ret |-> [Z |-> [i \in 0..(N - 1) |-> [j \in 0..(N - 1) |->
                        Num(JointCell_old(p.d1, p.d2, g_range[i], c_range[j], p.k))]],
               xAxis |-> c_range, yAxis |-> g_range,
               title |-> "Figure 4: Joint Choice (0=SI,1=LI,2=SM,3=LM)"],
      evals |-> N * N]

\* buildGridResults with the SI and LI keys swapped
buildGridResults_swapped(p) ==
  LET m == CircularEconomyModel(p.d1, p.d2, p.gamma, p.c, p.k)
  IN [ret |-> [singleProfits |-> [SI |-> profit_LI(m), LI |-> profit_SI(m),
                                  SM |-> profit_SM(m), LM |-> profit_LM(m)]],
      evals |-> 1]

\* part_002 buildGridResults({ d1=0.5, d2=0.1, gamma=1.0, c=0.15, k=0.0 })
buildGridResults(p) ==
  LET m == CircularEconomyModel(p.d1, p.d2, p.gamma, p.c, p.k)
  IN [ret |-> [singleProfits |-> [SI |-> profit_SI(m), LI |-> profit_LI(m),
                                  SM |-> profit_SM(m), LM |-> profit_LM(m)]],
      evals |-> 1]

\* utils/model.js buildGridResults({ d1, d2, gamma, c, k })
buildGridResults_old(p) ==
  LET m == CircularEconomyModel(p.d1, p.d2, p.gamma, p.c, p.k)
  IN [ret |-> [singleProfits |-> [SI |-> profit_SI(m), LI |-> profit_LI_old(m),
                                  SM |-> profit_SM(m), LM |-> profit_LM_old(m)],
               Z |-> <<<<0>>>>, xAxis |-> <<0>>, yAxis |-> <<0>>,
               title |-> "Profits"],
      evals |-> 1]

gammas_fig6 == <<R(72, 100), R(102, 100)>>

search_points == 15

\* ReduceStep that keeps the earlier key on a tie: profits[a] >= profits[b] ? a : b
ReduceStep_ge(profits, a, b) == IF QGe(profits[a], profits[b]) THEN a ELSE b

\* one step (a, b) => profits[a] > profits[b] ? a : b of the reduction
ReduceStep(profits, a, b) == IF QGt(profits[a], profits[b]) THEN a ELSE b

\* Object.keys(profits).reduce((a,b) => profits[a] > profits[b] ? a : b)
\* over the keys SI, LI, SM, LM in insertion order
ReduceStrat(profits) ==
  ReduceStep(profits, ReduceStep(profits, ReduceStep(profits, "SI", "LI"), "SM"), "LM")

\* const strat = Object.keys(profits).reduce(...); const pi = profits[strat]
Fig6Pick(profits) ==
  [pi |-> profits[ReduceStrat(profits)], strat |-> ReduceStrat(profits)]

\* the body of the (d1v, d2v) loops of buildFig6Data: the four profits at the
\* candidate durability pair, the key the reduction picks and its profit
Fig6Candidate(d1v, d2v, gamma, c0) ==
  LET c_total == RAdd(RAdd(c0, RMul(R(8, 100), RMul(d1v, d1v))),
                      RMul(R(16, 100), RMul(d2v, d2v)))
      m == CircularEconomyModel(d1v, d2v, gamma, c_total, RInt(0))
  IN Fig6Pick([SI |-> profit_SI(m), LI |-> profit_LI(m),
               SM |-> profit_SM(m), LM |-> profit_LM(m)])

\* if (pi > best_pi) { best_pi = pi; best_pair = [d1v, d2v]; best_strat = strat; }
Fig6Update(best, cand, d1v, d2v) ==
  IF QGt(cand.pi, best.best_pi)
  THEN [best_pi |-> cand.pi, best_pair |-> <<d1v, d2v>>, best_strat |-> cand.strat]
  ELSE best

\* the inner loop (d2v) of the search of buildFig6Data.  (The guard on
\* best_strat never holds; it makes TLC evaluate best before it enters the
\* next iteration.)
RECURSIVE Fig6LoopD2(_, _, _, _, _, _)
Fig6LoopD2(search_grid, gamma, c0, i, j, best) ==
  IF j = search_points \/ best.best_strat = "" THEN best
  ELSE IF RGe(search_grid[j], search_grid[i])
       THEN Fig6LoopD2(search_grid, gamma, c0, i, j + 1, best)
  ELSE Fig6LoopD2(search_grid, gamma, c0, i, j + 1,
                  Fig6Update(best,
                             Fig6Candidate(search_grid[i], search_grid[j], gamma, c0),
                             search_grid[i], search_grid[j]))

\* the outer loop (d1v)
RECURSIVE Fig6LoopD1(_, _, _, _, _)
Fig6LoopD1(search_grid, gamma, c0, i, best) ==
  IF i = search_points \/ best.best_strat = "" THEN best
  ELSE Fig6LoopD1(search_grid, gamma, c0, i + 1,
                  Fig6LoopD2(search_grid, gamma, c0, i, 0, best))

\* Fig6Search with best_pi initialised to +1e9
Fig6Search_posinit(gamma, c0) ==
  Fig6LoopD1(linspace(R(1, 10), R(9, 10), search_points), gamma, c0, 0,
             [best_pi |-> QFrac(1000000000, 1),
              best_pair |-> <<R(1, 10), R(1, 10)>>,
              best_strat |-> "SI"])

\* the search over the coarse (d1, d2) lattice for one gamma and one c0: the
\* final best_pi, best_pair, best_strat
Fig6Search(gamma, c0) ==
  Fig6LoopD1(linspace(R(1, 10), R(9, 10), search_points), gamma, c0, 0,
             [best_pi |-> QFrac(-1000000000, 1),
              best_pair |-> <<R(1, 10), R(1, 10)>>,
              best_strat |-> "SI"])

\* the searches of one gamma for c0_vals[s..steps-1], in order
RECURSIVE Fig6Sweep(_, _, _, _)
Fig6Sweep(gamma, c0_vals, s, steps) ==
  IF s = steps THEN <<>>
  ELSE <<Fig6Search(gamma, c0_vals[s])>> \o Fig6Sweep(gamma, c0_vals, s + 1, steps)

\* one entry of out: the series of one gamma from the searches found[1..steps]
Fig6Series(gamma, c0_vals, found, steps) ==
  [gamma |-> gamma,
   c0_vals |-> c0_vals,
   opt_d1 |-> [s \in 0..(steps - 1) |-> found[s + 1].best_pair[1]],
   opt_d2 |-> [s \in 0..(steps - 1) |-> found[s + 1].best_pair[2]],
   strategies |-> [s \in 0..(steps - 1) |-> found[s + 1].best_strat]]

\* part_002 buildFig6Data({ c0min=0.01, c0max=0.15, steps=20 })
buildFig6Data(p) ==
  LET c0_vals == linspace(p.c0min, p.c0max, p.steps)
  IN [ret |-> [out |-> [g \in 1..Len(gammas_fig6) |->
                         Fig6Series(gammas_fig6[g], c0_vals,
                                    Fig6Sweep(gammas_fig6[g], c0_vals, 0, p.steps),
                                    p.steps)],
               title |-> "Endogenous Durability (Fig 6)"],
      evals |-> Len(gammas_fig6) * p.steps
                * ((search_points * (search_points - 1)) \div 2)]

(***************************************************************************)
(* The state machine: a pending invocation of one exported builder with    *)
(* its parameter object (call), then its return value (ret) and the number *)
(* of model objects it constructed (evals).                                *)
(***************************************************************************)
MaxRes == 3

MaxSteps == 2

\* a parameter object; a field the builder does not read holds the value the
\* page passes or the default of the signature
Params(fn, d1, d2, gamma, c, k, resolution, c0min, c0max, steps) ==
  [fn |-> fn, d1 |-> d1, d2 |-> d2, gamma |-> gamma, c |-> c, k |-> k,
   resolution |-> resolution, c0min |-> c0min, c0max |-> c0max, steps |-> steps]

Resolutions == 1..MaxRes

\* (d1, d2) with d2 < d1: the page's initial pair, the defaults of
\* buildFig3Grid, the two cases of Fig 4, and a pair that gamma > 1.11 clamps
FeasiblePairs ==
  { <<R(5, 10), R(2, 10)>>, <<R(5, 10), R(1, 10)>>, <<R(28, 100), R(1, 10)>>,
    <<R(20, 100), R(18, 100)>>, <<R(9, 10), R(6, 10)>> }

\* (d1, d2) with d2 >= d1
InfeasiblePairs == { <<R(3, 10), R(3, 10)>>, <<R(2, 10), R(5, 10)>> }

Gammas == { R(5, 10), RInt(1), R(12, 10), R(15, 10) }

\* c inside (0, 0.35), and two costs above every feasibility threshold
Costs == { R(1, 100), R(15, 100), R(3, 10), R(6, 10), R(8, 10) }

Ks == { RInt(0), R(5, 100) }

\* single-point calls (both snapshots) with c exactly on the threshold C_LI:
\* d1 = 0.5, d2 = 0.25, gamma = 1 give d_sum_L = 0.75 and C_LI = 0.15625
BoundaryCalls ==
  {Params(fn, R(1, 2), R(1, 4), RInt(1), R(5, 32), RInt(0), 0, RInt(0), RInt(0), 0) :
     fn \in {"buildGridResults", "buildGridResults_old"}}

Calls ==
  {Params("buildGridResults", dd[1], dd[2], g, c, k, 0, RInt(0), RInt(0), 0) :
     dd \in FeasiblePairs, g \in Gammas, c \in Costs, k \in Ks}
  \cup
  BoundaryCalls
  \cup
  {Params("buildGridResults_old", dd[1], dd[2], g, c, k, 0, RInt(0), RInt(0), 0) :
     dd \in {<<R(5, 10), R(2, 10)>>, <<R(9, 10), R(6, 10)>>},
     g \in {RInt(1), R(12, 10)}, c \in Costs, k \in Ks}
  \cup
  {Params(fn, R(5, 10), R(2, 10), g, c, k, n, RInt(0), RInt(0), 0) :
     fn \in {"buildFig1Grid", "buildFig1Grid_old"},
     g \in {R(8, 10), R(12, 10)}, c \in {R(5, 100), R(15, 100)},
     k \in {RInt(0), R(2, 100)}, n \in Resolutions}
  \cup
  {Params("buildFig2Grid", RInt(0), RInt(0), RInt(0), c, RInt(0), n, RInt(0), RInt(0), 0) :
     c \in {R(15, 100), R(5, 100)}, n \in Resolutions}
  \cup
  {Params("buildFig3Grid", dd[1], dd[2], RInt(0), RInt(0), RInt(0), n, RInt(0), RInt(0), 0) :
     dd \in {<<R(5, 10), R(2, 10)>>, <<R(5, 10), R(1, 10)>>} \cup InfeasiblePairs,
     n \in Resolutions}
  \cup
  {Params(fn, RInt(0), RInt(0), RInt(0), RInt(0), RInt(0), n, RInt(0), RInt(0), 0) :
     fn \in {"buildFig4Grid", "buildFig5Grid"}, n \in Resolutions}
  \cup
  {Params("buildJointChoiceGrid", dd[1], dd[2], RInt(1), R(15, 100), k, n,
          RInt(0), RInt(0), 0) :
     dd \in {<<R(5, 10), R(2, 10)>>, <<R(20, 100), R(18, 100)>>} \cup InfeasiblePairs,
     k \in {RInt(0)}, n \in Resolutions}
  \cup
  {Params("buildFig6Data", RInt(0), RInt(0), RInt(0), RInt(0), RInt(0), 0,
          cc[1], cc[2], st) :
     cc \in {<<R(1, 100), R(15, 100)>>, <<R(5, 100), R(30, 100)>>},
     st \in 1..MaxSteps}

NoRet == [title |-> "pending"]

Init ==
  /\ call \in Calls
  /\ phase = "call"
  /\ ret = NoRet
  /\ evals = 0

Return(r) ==
  /\ ret' = r.ret
  /\ evals' = r.evals
  /\ phase' = "done"
  /\ UNCHANGED call

BuildFig1Grid ==
  phase = "call" /\ call.fn = "buildFig1Grid" /\ Return(buildFig1Grid(call))

BuildFig1Grid_old ==
  phase = "call" /\ call.fn = "buildFig1Grid_old" /\ Return(buildFig1Grid_old(call))

BuildFig2Grid ==
  phase = "call" /\ call.fn = "buildFig2Grid" /\ Return(buildFig2Grid(call))

BuildFig3Grid ==
  phase = "call" /\ call.fn = "buildFig3Grid" /\ Return(buildFig3Grid(call))

BuildFig4Grid ==
  phase = "call" /\ call.fn = "buildFig4Grid" /\ Return(buildFig4Grid(call))

BuildFig5Grid ==
  phase = "call" /\ call.fn = "buildFig5Grid" /\ Return(buildFig5Grid(call))

BuildJointChoiceGrid ==
  phase = "call" /\ call.fn = "buildJointChoiceGrid" /\ Return(buildJointChoiceGrid(call))

BuildFig6Data ==
  phase = "call" /\ call.fn = "buildFig6Data" /\ Return(buildFig6Data(call))

BuildGridResults ==
  phase = "call" /\ call.fn = "buildGridResults" /\ Return(buildGridResults(call))

BuildGridResults_old ==
  phase = "call" /\ call.fn = "buildGridResults_old" /\ Return(buildGridResults_old(call))

Next ==
  \/ BuildFig1Grid
  \/ BuildFig1Grid_old
  \/ BuildFig2Grid
  \/ BuildFig3Grid
  \/ BuildFig4Grid
  \/ BuildFig5Grid
  \/ BuildJointChoiceGrid
  \/ BuildFig6Data
  \/ BuildGridResults
  \/ BuildGridResults_old

Spec == Init /\ [][Next]_vars

(***************************************************************************)
(* Properties.                                                             *)
(***************************************************************************)
\* the matrices with their sentinel that a (d1, d2) sweep returned
SweptMatrices ==
  IF call.fn = "buildFig1Grid" THEN {ret.Z_sell, ret.Z_leas}
  ELSE IF call.fn = "buildFig1Grid_old" THEN {ret.Z}
  ELSE {ret.results[g].Z : g \in DOMAIN ret.results}

SweepSentinel == IF call.fn = "buildFig1Grid_old" THEN NaNCell ELSE Null

\* C1: after buildFig1Grid (either snapshot) or buildFig2Grid with resolution
\* N >= 2, a cell [i][j] of every returned matrix is the sentinel (null, NaN in
\* the older snapshot) if and only if yAxis[i] >= xAxis[j], and every other
\* cell is a numeric code.
FeasibilityMask ==
  (/\ phase = "done"
   /\ call.fn \in {"buildFig1Grid", "buildFig1Grid_old", "buildFig2Grid"}
   /\ call.resolution >= 2)
  => \A Z \in SweptMatrices : \A i \in DOMAIN Z : \A j \in DOMAIN Z[i] :
       /\ (Z[i][j] = SweepSentinel) <=> RGe(ret.yAxis[i], ret.xAxis[j])
       /\ (Z[i][j] # SweepSentinel) => (Z[i][j].t = "num" /\ Z[i][j].v \in 0..3)

\* a finished buildFig2Grid call with N = 3 whose matrices hold the sentinel on
\* and above the diagonal and numeric codes below it
FeasibilityMaskWitness ==
  /\ phase = "done"
  /\ call.fn = "buildFig2Grid"
  /\ call.resolution = 3
  /\ ret.results[1].Z[1][1] = Null
  /\ ret.results[1].Z[2][1] = Null
  /\ ret.results[1].Z[1][2].t = "num"
  /\ ret.results[2].Z[0][2].t = "num"

\* the documented parameter domain:
\* 0 < d2 < d1 < 1, gamma in [0.5, 1.5], c in (0, 0.35), k in [0, 0.05]
InDomain(p) ==
  /\ RLt(RInt(0), p.d2) /\ RLt(p.d2, p.d1) /\ RLt(p.d1, RInt(1))
  /\ RGe(p.gamma, R(5, 10)) /\ RGe(R(15, 10), p.gamma)
  /\ RLt(RInt(0), p.c) /\ RLt(p.c, R(35, 100))
  /\ RGe(p.k, RInt(0)) /\ RGe(R(5, 100), p.k)

\* a finished single-point call (either snapshot) on a tuple of the domain
ValidPoint ==
  /\ phase = "done"
  /\ call.fn \in {"buildGridResults", "buildGridResults_old"}
  /\ InDomain(call)

\* C2: on every parameter tuple of the documented domain each of profit_SI,
\* profit_LI, profit_SM and profit_LM is >= 0, in both snapshots.
ProfitNonNegative ==
  ValidPoint => \A s \in {"SI", "LI", "SM", "LM"} : QGe(ret.singleProfits[s], QZero)

\* a tuple of the domain at the expensive corner (c = 0.3, k = 0.05) of the
\* older snapshot, where all four profits are positive
ProfitNonNegativeWitness ==
  /\ ValidPoint
  /\ call.fn = "buildGridResults_old"
  /\ call.c = R(3, 10)
  /\ call.k = R(5, 100)
  /\ \A s \in {"SI", "LI", "SM", "LM"} : QGt(ret.singleProfits[s], QZero)

\* C3: on every valid parameter tuple profit_SM() >= profit_SI() of the same
\* model object.
SMDominance ==
  ValidPoint => QGe(ret.singleProfits.SM, ret.singleProfits.SI)

\* a valid tuple where the modular profit pi1 + pi2 is below the integral one,
\* so that profit_SM returns its fallback
SMDominanceWitness ==
  /\ ValidPoint
  /\ call.fn = "buildGridResults"
  /\ QGt(ret.singleProfits.SI, QZero)
  /\ QEq(ret.singleProfits.SM, ret.singleProfits.SI)
  /\ QLt(profit_SM_nofallback(CircularEconomyModel(call.d1, call.d2, call.gamma,
                                                   call.c, call.k)),
         ret.singleProfits.SI)

\* C4: on every valid parameter tuple profit_LM() >= profit_LI() of the same
\* model object, in both snapshots (lattices of 16 and of 21 points).
LMDominance ==
  ValidPoint => QGe(ret.singleProfits.LM, ret.singleProfits.LI)

\* a valid tuple where the modular lattice optimum is below the integral
\* leasing profit, so that profit_LM returns profit_LI
LMDominanceWitness ==
  /\ ValidPoint
  /\ call.fn = "buildGridResults"
  /\ QGt(ret.singleProfits.LI, QZero)
  /\ QEq(ret.singleProfits.LM, ret.singleProfits.LI)
  /\ QLt(profit_LM_nofallback(CircularEconomyModel(call.d1, call.d2, call.gamma,
                                                   call.c, call.k)),
         ret.singleProfits.LI)

\* the grids a joint-choice builder returned, each with the fixed parameters
\* of its cells
JointGrids ==
  IF call.fn = "buildFig4Grid"
  THEN {[Z |-> ret.results[q].Z, d1 |-> cases_fig4[q].d1, d2 |-> cases_fig4[q].d2,
         k |-> RInt(0), cAxis |-> ret.cAxis, gAxis |-> ret.gAxis] :
        q \in DOMAIN ret.results}
  ELSE IF call.fn = "buildFig5Grid"
  THEN {[Z |-> ret.results[q].Z, d1 |-> R(28, 100), d2 |-> R(1, 10),
         k |-> kvals_fig5[q], cAxis |-> ret.cAxis, gAxis |-> ret.gAxis] :
        q \in DOMAIN ret.results}
  ELSE {[Z |-> ret.Z, d1 |-> call.d1, d2 |-> call.d2, k |-> call.k,
         cAxis |-> ret.xAxis, gAxis |-> ret.yAxis]}

\* the profits [SI, LI, SM, LM] of a model object in the snapshot of builder fn
FourProfits(fn, m) ==
  IF fn = "buildJointChoiceGrid"
  THEN <<profit_SI(m), profit_LI_old(m), profit_SM(m), profit_LM_old(m)>>
  ELSE <<profit_SI(m), profit_LI(m), profit_SM(m), profit_LM(m)>>

\* v is the smallest 0-based index whose profit is the maximum of P
IsFirstMax(P, v) ==
  /\ v \in 0..3
  /\ \A w \in 0..3 : QGe(P[v + 1], P[w + 1])
  /\ \A w \in 0..3 : w < v => QLt(P[w + 1], P[v + 1])

\* the cells of a finished joint-choice grid are first-maximum indices
JointCellsFirstMax ==
  \A G \in JointGrids : \A i \in DOMAIN G.Z : \A j \in DOMAIN G.Z[i] :
    /\ G.Z[i][j].t = "num"
    /\ IsFirstMax(FourProfits(call.fn,
                              CircularEconomyModel(G.d1, G.d2, G.gAxis[i],
                                                   G.cAxis[j], G.k)),
                  G.Z[i][j].v)

\* C5: in the joint-choice grids (buildFig4Grid, buildFig5Grid,
\* buildJointChoiceGrid) every cell is the smallest index in the order
\* [SI=0, LI=1, SM=2, LM=3] whose profit equals the maximum of the four
\* profits at that cell, hence every cell is in {0,1,2,3}.
JointChoiceFirstMax ==
  (/\ phase = "done"
   /\ call.fn \in {"buildFig4Grid", "buildFig5Grid", "buildJointChoiceGrid"})
  => JointCellsFirstMax

\* the same statement for lattices of at least two points per axis
JointChoiceFirstMaxFrom2 ==
  (/\ phase = "done"
   /\ call.fn \in {"buildFig4Grid", "buildFig5Grid", "buildJointChoiceGrid"}
   /\ call.resolution >= 2)
  => JointCellsFirstMax

\* a finished single-point call of either snapshot
SinglePoint ==
  phase = "done" /\ call.fn \in {"buildGridResults", "buildGridResults_old"}

\* 2c > 1 + (d1 + d2)/2
AboveThreshold(p) ==
  RGt(RMul(RInt(2), p.c), RAdd(RInt(1), RDiv(RAdd(p.d1, p.d2), RInt(2))))

\* (2 - 4c + d1 + d2)^2 / (8 * (2 + 3*(d1 + d2)))
SellingClosedForm(p) ==
  QDiv(QSquare(QOfR(RAdd(RAdd(RSub(RInt(2), RMul(RInt(4), p.c)), p.d1), p.d2))),
       QOfR(RMul(RInt(8), RAdd(RInt(2), RMul(RInt(3), RAdd(p.d1, p.d2))))))

\* C6: profit_SI is exactly 0 whenever 2c > 1 + (d1+d2)/2 and otherwise the
\* number (2 - 4c + d1 + d2)^2 / (8*(2 + 3*(d1+d2))); a value comes back in
\* both cases.
SIBoundary ==
  SinglePoint =>
    /\ AboveThreshold(call) => ret.singleProfits.SI = QZero
    /\ ~AboveThreshold(call) =>
         /\ QIsFinite(ret.singleProfits.SI)
         /\ QEq(ret.singleProfits.SI, SellingClosedForm(call))

\* a single-point call with c = 0.8 above the threshold returned SI = 0 where
\* the closed form would be positive
SIBoundaryWitness ==
  /\ SinglePoint
  /\ call.c = R(8, 10)
  /\ AboveThreshold(call)
  /\ ret.singleProfits.SI = QZero
  /\ QGt(SellingClosedForm(call), QZero)

\* the reference point d1 = 0.5, d2 = 0.2, gamma = 1.0, c = 0.15, k = 0
RefCall ==
  Params("buildGridResults", R(5, 10), R(2, 10), RInt(1), R(15, 100), RInt(0),
         0, RInt(0), RInt(0), 0)

\* |x - y| <= eps
Within(x, y, eps) == QLe(QSub(x, y), eps) /\ QLe(QSub(y, x), eps)

\* C7: at the reference point profit_SI is 4.41/32.8 within 1e-6 and
\* buildGridResults reports that value under the key SI.
ReferencePoint ==
  (phase = "done" /\ call = RefCall) =>
    /\ Within(profit_SI(CircularEconomyModel(call.d1, call.d2, call.gamma,
                                             call.c, call.k)),
              QFrac(441, 3280), QFrac(1, 1000000))
    /\ Within(ret.singleProfits.SI, QFrac(441, 3280), QFrac(1, 1000000))

\* buildGridResults returned from the reference point with SI = 441/3280, a
\* value that differs from the LI, SM and LM it reports
ReferencePointWitness ==
  /\ phase = "done"
  /\ call = RefCall
  /\ QEq(ret.singleProfits.SI, QFrac(441, 3280))
  /\ \A s \in {"LI", "SM", "LM"} :
       ~Within(ret.singleProfits[s], QFrac(441, 3280), QFrac(1, 1000000))

\* the 15 points 0.1 + 0.8*i/14 of the coarse search lattice
SearchLattice == {R(7 + 4 * i, 70) : i \in 0..14}

\* C8: for every gamma series and every base cost of a buildFig6Data sweep
\* with steps >= 2, the returned pair has opt_d2 < opt_d1, both coordinates
\* are points of the coarse lattice inside [0.1, 0.9], and the pair is not the
\* placeholder [0.1, 0.1].
EndogenousDurability ==
  (phase = "done" /\ call.fn = "buildFig6Data" /\ call.steps >= 2) =>
    \A g \in DOMAIN ret.out : \A s \in DOMAIN ret.out[g].opt_d1 :
      /\ RLt(ret.out[g].opt_d2[s], ret.out[g].opt_d1[s])
      /\ ret.out[g].opt_d1[s] \in SearchLattice
      /\ ret.out[g].opt_d2[s] \in SearchLattice
      /\ RGe(ret.out[g].opt_d2[s], R(1, 10))
      /\ RGe(R(9, 10), ret.out[g].opt_d1[s])
      /\ <<ret.out[g].opt_d1[s], ret.out[g].opt_d2[s]>> # <<R(1, 10), R(1, 10)>>

\* a finished two-step sweep whose every series reports, at every base cost, a
\* pair with d2 < d1 other than the placeholder
EndogenousDurabilityWitness ==
  /\ phase = "done"
  /\ call.fn = "buildFig6Data"
  /\ call.steps = 2
  /\ DOMAIN ret.out = 1..2
  /\ \A g \in DOMAIN ret.out :
       /\ DOMAIN ret.out[g].opt_d1 = 0..1
       /\ \A s \in 0..1 : RLt(ret.out[g].opt_d2[s], ret.out[g].opt_d1[s])

\* the matrices with their sentinel that a builder with fixed (d1, d2) returned
FixedPairMatrices ==
  IF call.fn = "buildFig3Grid" THEN {ret.Z_int, ret.Z_mod, ret.Z_switch}
  ELSE {ret.Z}

FixedPairSentinel == IF call.fn = "buildFig3Grid" THEN Null ELSE NaNCell

\* C9: buildFig3Grid, and buildJointChoiceGrid of the older snapshot, called
\* with d2 >= d1 emit the infeasibility sentinel in every cell and construct
\* no model object.
FixedPairMasked ==
  (/\ phase = "done"
   /\ call.fn \in {"buildFig3Grid", "buildJointChoiceGrid"}
   /\ RGe(call.d2, call.d1))
  => /\ evals = 0
     /\ \A Z \in FixedPairMatrices : \A i \in DOMAIN Z : \A j \in DOMAIN Z[i] :
          Z[i][j] = FixedPairSentinel

\* the model object of the call's own (d1, d2, gamma, c, k)
CallModel == CircularEconomyModel(call.d1, call.d2, call.gamma, call.c, call.k)

\* the four denominators the profit functions divide by
Denominators(m) ==
  { RMul(RInt(8), RAdd(RInt(2), RMul(RInt(3), m.d_sum_S))),
    RMul(RInt(8), RAdd(RInt(2), RMul(RInt(3), m.d_sum_L))),
    RMul(RInt(8), RSub(RInt(1), m.d2)),
    RMul(RInt(8), RAdd(RAdd(RInt(1), RMul(RInt(3), m.d1)), RMul(RInt(4), m.d2))) }

\* every matrix a finished grid builder returned
GridMatrices ==
  IF call.fn \in {"buildFig1Grid", "buildFig1Grid_old", "buildFig2Grid"}
  THEN SweptMatrices
  ELSE IF call.fn = "buildFig3Grid" THEN {ret.Z_int, ret.Z_mod, ret.Z_switch}
  ELSE IF call.fn \in {"buildFig4Grid", "buildFig5Grid"}
  THEN {ret.results[q].Z : q \in DOMAIN ret.results}
  ELSE IF call.fn = "buildJointChoiceGrid" THEN {ret.Z}
  ELSE {}

\* a finished grid call with at least two points per axis whose fixed
\* durabilities, if it has any, are feasible
ValidGrid ==
  /\ phase = "done"
  /\ call.resolution >= 2
  /\ call.fn \in {"buildFig3Grid", "buildJointChoiceGrid"} => RLt(call.d2, call.d1)

\* C11: on every tuple of the documented domain the four denominators are
\* strictly positive and every profit is a finite number; for every
\* resolution >= 2 every non-sentinel grid cell is a finite number (one of
\* the codes 0..3).
FiniteValues ==
  /\ ValidPoint =>
       /\ \A den \in Denominators(CallModel) : RGt(den, RInt(0))
       /\ \A s \in {"SI", "LI", "SM", "LM"} : QIsFinite(ret.singleProfits[s])
  /\ ValidGrid =>
       \A Z \in GridMatrices : \A i \in DOMAIN Z : \A j \in DOMAIN Z[i] :
         Z[i][j] \in {Null, NaNCell} \/ (Z[i][j].t = "num" /\ Z[i][j].v \in 0..3)

\* a tuple of the domain with the leasing durabilities clamped (gamma = 1.5
\* on d1 = 0.9, d2 = 0.6, so d_sum_L = 1.899) and four finite positive profits
FiniteValuesWitness ==
  /\ ValidPoint
  /\ call.fn = "buildGridResults"
  /\ call.gamma = R(15, 10)
  /\ call.d1 = R(9, 10)
  /\ CallModel.d_sum_L = R(1899, 1000)
  /\ \A s \in {"SI", "LI", "SM", "LM"} :
       QIsFinite(ret.singleProfits[s]) /\ QGt(ret.singleProfits[s], QZero)

\* the builders that read a resolution
ResolutionFns ==
  {"buildFig1Grid", "buildFig1Grid_old", "buildFig2Grid", "buildFig3Grid",
   "buildFig4Grid", "buildFig5Grid", "buildJointChoiceGrid"}

\* the call ended in an error: no axes and no matrices came back
Rejected ==
  /\ "error" \in DOMAIN ret
  /\ DOMAIN ret \cap {"Z", "Z_sell", "Z_leas", "Z_int", "Z_mod", "Z_switch",
                      "results", "xAxis", "yAxis", "cAxis", "gAxis"} = {}

\* C12: a grid builder called with resolution < 2 (here resolution = 1; 0 is
\* replaced by the default) rejects the call with an error instead of
\* returning axes and matrices.
DegenerateRejected ==
  (phase = "done" /\ call.fn \in ResolutionFns /\ call.resolution = 1)
  => Rejected

\* axis is 0.05, ..., 0.95 in N evenly spaced, strictly increasing steps
IsFig1Axis(axis, N) ==
  /\ DOMAIN axis = 0..(N - 1)
  /\ axis[0] = R(5, 100)
  /\ axis[N - 1] = R(95, 100)
  /\ \A i \in 0..(N - 2) :
       /\ RLt(axis[i], axis[i + 1])
       /\ RSub(axis[i + 1], axis[i]) = RDiv(R(90, 100), RInt(N - 1))

\* C13: for resolution N >= 2 buildFig1Grid (either snapshot) returns xAxis
\* and yAxis of exactly N strictly increasing, evenly spaced values from 0.05
\* to 0.95 and N x N matrices whose cell [i][j] belongs to d2 = yAxis[i] (row)
\* and d1 = xAxis[j] (column): it is masked exactly when i >= j.
Fig1Layout ==
  (/\ phase = "done"
   /\ call.fn \in {"buildFig1Grid", "buildFig1Grid_old"}
   /\ call.resolution >= 2)
  => /\ IsFig1Axis(ret.xAxis, call.resolution)
     /\ IsFig1Axis(ret.yAxis, call.resolution)
     /\ \A Z \in SweptMatrices :
          /\ DOMAIN Z = 0..(call.resolution - 1)
          /\ \A i \in DOMAIN Z :
               /\ DOMAIN Z[i] = 0..(call.resolution - 1)
               /\ \A j \in DOMAIN Z[i] :
                    /\ (Z[i][j] = SweepSentinel) <=> (i >= j)
                    /\ (Z[i][j] = SweepSentinel) <=> RGe(ret.yAxis[i], ret.xAxis[j])

\* a finished buildFig1Grid call with N = 3: axes 0.05, 0.5, 0.95, row 0
\* (d2 = 0.05) numeric right of the diagonal, column 0 (d1 = 0.05) masked
Fig1LayoutWitness ==
  /\ phase = "done"
  /\ call.fn = "buildFig1Grid"
  /\ call.resolution = 3
  /\ ret.xAxis = [i \in 0..2 |-> IF i = 0 THEN R(5, 100)
                                 ELSE IF i = 1 THEN R(1, 2) ELSE R(95, 100)]
  /\ ret.Z_sell[0][2].t = "num"
  /\ ret.Z_leas[0][1].t = "num"
  /\ ret.Z_sell[2][0] = Null

\* the code the claim assigns to a pair of preferences (TRUE = lease)
SwitchTable(leaseI, leaseM) ==
  IF leaseI /\ ~leaseM THEN 1
  ELSE IF leaseI /\ leaseM THEN 2
  ELSE 0

\* the pairs <<Z_int, Z_mod, Z_switch>> of the returned buildFig3Grid cells
Fig3Triples ==
  IF phase = "done" /\ call.fn = "buildFig3Grid"
  THEN {<<ret.Z_int[i][j], ret.Z_mod[i][j], ret.Z_switch[i][j]>> :
          i \in DOMAIN ret.Z_int, j \in DOMAIN ret.Z_int}
  ELSE {}

\* C14: in buildFig3Grid the integral preference of a cell is lease exactly
\* when LI > SI and the modular preference is lease exactly when LM > SM
\* (strict: a tie prefers selling), and Z_switch is 1 for (lease, sell),
\* 2 for (lease, lease), 0 for (sell, sell) and 0 for (sell, lease).
SwitchingCodes ==
  (phase = "done" /\ call.fn = "buildFig3Grid")
  => \A i \in DOMAIN ret.Z_switch : \A j \in DOMAIN ret.Z_switch[i] :
       LET m == CircularEconomyModel(call.d1, call.d2, ret.gAxis[i],
                                     ret.cAxis[j], RInt(0))
           leaseI == QGt(profit_LI(m), profit_SI(m))
           leaseM == QGt(profit_LM(m), profit_SM(m))
       IN /\ ret.Z_int[i][j] = Num(IF leaseI THEN 1 ELSE 0)
          /\ ret.Z_mod[i][j] = Num(IF leaseM THEN 1 ELSE 0)
          /\ ret.Z_switch[i][j] = Num(SwitchTable(leaseI, leaseM))

\* a finished buildFig3Grid call whose grid holds a switching cell (lease
\* integral, sell modular, code 1) and an always-lease cell (code 2)
SwitchingCodesWitness ==
  /\ <<Num(1), Num(0), Num(1)>> \in Fig3Triples
  /\ <<Num(1), Num(1), Num(2)>> \in Fig3Triples

\* The leasing-integral objective on the M x M lattice in integers: with
\* d_sum_L = a/D, 2c = p/E, Ln = i/M and Lu = j/M,
\*   rn = rnNum / (2*D*M),  ru = ruNum / (2*D*M),
\*   rn*Ln + ru*Lu - 2c*Ln = objNum / (2*D*M*M*E)
LIPrices(m, M, i, j) ==
  LET a == m.d_sum_L.n
      D == m.d_sum_L.d
      p == RMul(RInt(2), m.c).n
      E == RMul(RInt(2), m.c).d
      rnNum == 2 * D * M - 2 * D * i - a * j
      ruNum == a * (M - i - j)
  IN [rnNum |-> rnNum, ruNum |-> ruNum,
      objNum |-> (rnNum * i + ruNum * j) * E - p * i * 2 * D * M]

\* the lattice points with Lu <= Ln and both prices non-negative
LIAdmissible(m, M) ==
  {pt \in (0..M) \X (0..M) :
     /\ pt[2] <= pt[1]
     /\ LIPrices(m, M, pt[1], pt[2]).rnNum >= 0
     /\ LIPrices(m, M, pt[1], pt[2]).ruNum >= 0}

\* max(0, max of the objective over the admissible lattice points)
LIConstrainedMax(m, M) ==
  LET nums == {LIPrices(m, M, pt[1], pt[2]).objNum : pt \in LIAdmissible(m, M)}
      top == CHOOSE x \in nums : \A y \in nums : y <= x
  IN QMax(QZero,
          QFrac(top, 2 * m.d_sum_L.d * M * M * RMul(RInt(2), m.c).d))

\* c < C_LI = (2 - d_sum_L)/8
BelowCLI(m) == RLt(m.c, RDiv(RSub(RInt(2), m.d_sum_L), RInt(8)))

\* C15: on every valid parameter tuple the result of _optimize_LI_numerical
\* equals max(0, max of rn*Ln + ru*Lu - 2c*Ln over the lattice points with
\* Lu <= Ln, rn >= 0 and ru >= 0), in both snapshots (S = 25 and steps = 31);
\* where c < C_LI this is the leasing-integral profit the call returned.
LIOptimizerConstrained ==
  ValidPoint =>
    /\ call.fn = "buildGridResults" =>
         /\ QEq(optimize_LI_numerical(CallModel),
                LIConstrainedMax(CallModel, S_LI - 1))
         /\ BelowCLI(CallModel) =>
              QEq(ret.singleProfits.LI, LIConstrainedMax(CallModel, S_LI - 1))
    /\ call.fn = "buildGridResults_old" =>
         /\ QEq(optimize_LI_numerical_old(CallModel),
                LIConstrainedMax(CallModel, steps_LI_old - 1))
         /\ BelowCLI(CallModel) =>
              QEq(ret.singleProfits.LI,
                  LIConstrainedMax(CallModel, steps_LI_old - 1))

\* a finished call of the newer snapshot below C_LI whose lattice has points
\* with a negative price, one of them with a positive objective, and whose
\* returned leasing-integral profit is positive
LIOptimizerConstrainedWitness ==
  /\ ValidPoint
  /\ call.fn = "buildGridResults"
  /\ BelowCLI(CallModel)
  /\ \E pt \in (0..(S_LI - 1)) \X (0..(S_LI - 1)) :
       /\ pt[2] <= pt[1]
       /\ pt \notin LIAdmissible(CallModel, S_LI - 1)
       /\ LIPrices(CallModel, S_LI - 1, pt[1], pt[2]).objNum > 0
  /\ QGt(ret.singleProfits.LI, QZero)

\* The leasing-modular objective on the M x M x M lattice in integers: with
\* d1L = a1/D, d2L = a2/D, c = pc/E, k = pk/E and (Lnn, Lun, Luu) =
\* (t[1], t[2], t[3]) / M, revenue - cost = LMObjective / (2*D*M*M*E)
LMObjective(m, M, t) ==
  LET D == Lcm(m.d1L.d, m.d2L.d)
      E == Lcm(m.c.d, m.k.d)
      a1 == m.d1L.n * (D \div m.d1L.d)
      a2 == m.d2L.n * (D \div m.d2L.d)
      pc == m.c.n * (E \div m.c.d)
      pk == m.k.n * (E \div m.k.d)
      Q == t[1] + t[2] + t[3]
      ruu == (a1 + a2) * (M - Q)                            \* over 2*D*M
      run == ruu + (D - a2) * (M - t[1] - t[2])
      rnn == run + (D - a1) * (M - t[1])
      revenue == rnn * t[1] + run * t[2] + ruu * t[3]       \* over 2*D*M*M
      cost == (2 * pc + pk) * t[1] + (pc + pk) * t[2] + pk * t[3]  \* over E*M
  IN revenue * E - cost * 2 * D * M

\* the lattice points with Lun + Luu <= Lnn and Lnn + Lun + Luu < 1
LMAdmissible(M) ==
  {t \in (0..M) \X (0..M) \X (0..M) :
     t[2] + t[3] <= t[1] /\ t[1] + t[2] + t[3] < M}

\* G: the maximum of revenue - cost over the admissible lattice points
LMGridMax(m, M) ==
  LET nums == {LMObjective(m, M, t) : t \in LMAdmissible(M)}
      top == CHOOSE x \in nums : \A y \in nums : y <= x
  IN QFrac(top, 2 * Lcm(m.d1L.d, m.d2L.d) * M * M * Lcm(m.c.d, m.k.d))

\* C16: on every valid parameter tuple the returned profit_LM equals
\* max(0, profit_LI, G), G the maximum of revenue - cost over exactly the
\* lattice points with Lun + Luu <= Lnn and Lnn + Lun + Luu < 1, in both
\* snapshots (steps = 16 and steps = 21).
LMIsConstrainedMax ==
  ValidPoint =>
    QEq(ret.singleProfits.LM,
        QMax(QZero,
             QMax(ret.singleProfits.LI,
                  LMGridMax(CallModel,
                            IF call.fn = "buildGridResults"
                            THEN steps_LM - 1 ELSE steps_LM_old - 1))))

\* a finished call of the newer snapshot where the lattice maximum G decides
\* the result (it exceeds profit_LI and 0) although some point that violates
\* a constraint has a larger objective than G
LMIsConstrainedMaxWitness ==
  /\ ValidPoint
  /\ call.fn = "buildGridResults"
  /\ QGt(LMGridMax(CallModel, steps_LM - 1), ret.singleProfits.LI)
  /\ QGt(LMGridMax(CallModel, steps_LM - 1), QZero)
  /\ \E t \in ((0..(steps_LM - 1)) \X (0..(steps_LM - 1)) \X (0..(steps_LM - 1)))
              \ LMAdmissible(steps_LM - 1) :
       QGt(QFrac(LMObjective(CallModel, steps_LM - 1, t),
                 2 * Lcm(CallModel.d1L.d, CallModel.d2L.d)
                   * (steps_LM - 1) * (steps_LM - 1)
                   * Lcm(CallModel.c.d, CallModel.k.d)),
           LMGridMax(CallModel, steps_LM - 1))

\* (2 - 4c + d_sum_L)^2 / (8 * (2 + 3*d_sum_L))
LeasingClosedForm(m) ==
  QDiv(QSquare(QOfR(RAdd(RSub(RInt(2), RMul(RInt(4), m.c)), m.d_sum_L))),
       QOfR(RMul(RInt(8), RAdd(RInt(2), RMul(RInt(3), m.d_sum_L)))))

\* the lattice maximum of the snapshot the call belongs to
LILatticeValue ==
  LIConstrainedMax(CallModel, IF call.fn = "buildGridResults"
                              THEN S_LI - 1 ELSE steps_LI_old - 1)

\* c = C_LI = (2 - d_sum_L)/8
OnCLI(m) == m.c = RDiv(RSub(RInt(2), m.d_sum_L), RInt(8))

\* C17: with C_LI = (2 - d_sum_L)/8, the returned profit_LI is the numerical
\* optimizer's result exactly when c < C_LI, and for c >= C_LI, c = C_LI
\* included, it is the closed form (2 - 4c + d_sum_L)^2 / (8*(2 + 3*d_sum_L));
\* both snapshots.
LIBranch ==
  ValidPoint =>
    IF BelowCLI(CallModel)
    THEN QEq(ret.singleProfits.LI, LILatticeValue)
    ELSE QEq(ret.singleProfits.LI, LeasingClosedForm(CallModel))

\* a finished call of the older snapshot with c exactly C_LI, where the
\* closed form (17/128) and the lattice maximum (191/1440) differ and the
\* closed form came back.  (On the 25-point lattice of the newer snapshot the
\* two agree at c = C_LI: the maximum sits on the lattice point Ln = Lu = 1/4.)
LIBranchWitness ==
  /\ ValidPoint
  /\ call.fn = "buildGridResults_old"
  /\ OnCLI(CallModel)
  /\ ~QEq(LeasingClosedForm(CallModel), LILatticeValue)
  /\ QEq(ret.singleProfits.LI, LeasingClosedForm(CallModel))

\* margin2 = 1 - 2c - d2 - k and margin1 = 1 - 2c - k + 2*d2 + d1
Margin2(p) == RSub(RSub(RSub(RInt(1), RMul(RInt(2), p.c)), p.d2), p.k)

Margin1(p) ==
  RAdd(RAdd(RSub(RSub(RInt(1), RMul(RInt(2), p.c)), p.k), RMul(RInt(2), p.d2)), p.d1)

\* pi2 = 0 if margin2 <= 0, else margin2^2 / (8*(1 - d2))
Pi2(p) ==
  IF RGt(Margin2(p), RInt(0))
  THEN QOfR(RDiv(RMul(Margin2(p), Margin2(p)),
                 RMul(RInt(8), RSub(RInt(1), p.d2))))
  ELSE QZero

\* pi1 = 0 if margin1 <= 0, else margin1^2 / (8*(1 + 3*d1 + 4*d2))
Pi1(p) ==
  IF RGt(Margin1(p), RInt(0))
  THEN QOfR(RDiv(RMul(Margin1(p), Margin1(p)),
                 RMul(RInt(8), RAdd(RInt(1), RAdd(RMul(RInt(3), p.d1),
                                                  RMul(RInt(4), p.d2))))))
  ELSE QZero

\* C18: the returned profit_SM is max(profit_SI, pi1 + pi2) with pi2 = 0 if
\* margin2 = 1 - 2c - d2 - k <= 0 and margin2^2 / (8*(1 - d2)) otherwise, and
\* pi1 = 0 if margin1 = 1 - 2c - k + 2*d2 + d1 <= 0 and
\* margin1^2 / (8*(1 + 3*d1 + 4*d2)) otherwise.
SMFormula ==
  SinglePoint =>
    QEq(ret.singleProfits.SM,
        QMax(ret.singleProfits.SI, QAdd(Pi1(call), Pi2(call))))

\* a finished single-point call where margin2 <= 0 < margin1 and the modular
\* profit, pi1 alone, beats the integral one
SMFormulaWitness ==
  /\ SinglePoint
  /\ RGe(RInt(0), Margin2(call))
  /\ RGt(Margin1(call), RInt(0))
  /\ QEq(ret.singleProfits.SM, Pi1(call))
  /\ QGt(ret.singleProfits.SM, ret.singleProfits.SI)

\* the point 0.1 + 0.8*i/14 of the coarse search lattice
LatticePoint(i) == R(7 + 4 * i, 70)

\* the index pairs <<i, j>> of the lattice pairs (d1, d2) with d2 < d1
LatticePairs == {pt \in (0..14) \X (0..14) : pt[2] < pt[1]}

\* the largest of the four strategy profits at (d1, d2) with gamma, k = 0 and
\* c_total = c0 + 0.08*d1^2 + 0.16*d2^2
TopProfit(d1, d2, gamma, c0) ==
  LET m == CircularEconomyModel(d1, d2, gamma,
             RAdd(c0, RAdd(RMul(R(8, 100), RMul(d1, d1)),
                           RMul(R(16, 100), RMul(d2, d2)))),
             RInt(0))
  IN QMax(QMax(profit_SI(m), profit_LI(m)), QMax(profit_SM(m), profit_LM(m)))

\* (d1, d2) is the first lattice pair, d1 ascending and then d2 ascending,
\* that attains the largest TopProfit of all lattice pairs
IsFirstGlobalMax(d1, d2, gamma, c0) ==
  /\ \E pt \in LatticePairs : <<d1, d2>> = <<LatticePoint(pt[1]), LatticePoint(pt[2])>>
  /\ LET top == TopProfit(d1, d2, gamma, c0)
     IN \A pt \in LatticePairs :
          LET v == TopProfit(LatticePoint(pt[1]), LatticePoint(pt[2]), gamma, c0)
          IN /\ QGe(top, v)
             /\ (RLt(LatticePoint(pt[1]), d1)
                 \/ (LatticePoint(pt[1]) = d1 /\ RLt(LatticePoint(pt[2]), d2)))
                => QLt(v, top)

\* every (gamma, c0) entry of a finished buildFig6Data call reports the first
\* global maximum
Fig6AllFirstMax ==
  \A g \in DOMAIN ret.out : \A s \in DOMAIN ret.out[g].opt_d1 :
    IsFirstGlobalMax(ret.out[g].opt_d1[s], ret.out[g].opt_d2[s],
                     ret.out[g].gamma, ret.out[g].c0_vals[s])

\* C19: for each gamma and each base cost c0, buildFig6Data returns the
\* lattice pair (d1, d2), d2 < d1, that attains the global maximum over all
\* such pairs and all four strategies of the profit at
\* c_total = c0 + 0.08*d1^2 + 0.16*d2^2 and k = 0, and the first such pair in
\* iteration order (d1 ascending, then d2 ascending) when several attain it.
Fig6GlobalMax ==
  (phase = "done" /\ call.fn = "buildFig6Data") => Fig6AllFirstMax

\* the same for sweeps of two or more base costs
Fig6GlobalMaxFrom2 ==
  (phase = "done" /\ call.fn = "buildFig6Data" /\ call.steps >= 2) => Fig6AllFirstMax

\* the model object of cell [i][j] of a buildFig1Grid sweep
Fig1CellModel(i, j) ==
  CircularEconomyModel(ret.xAxis[j], ret.yAxis[i], call.gamma, call.c, call.k)

\* the cells of the sweep the builder does not mask (d2 >= d1 is false)
Fig1FeasibleCells ==
  {ij \in (DOMAIN ret.yAxis) \X (DOMAIN ret.xAxis) :
     ~RGe(ret.yAxis[ij[1]], ret.xAxis[ij[2]])}

\* 1 if hi > lo + tol, else 0
AboveBy(hi, lo, tol) == IF QGt(hi, QAdd(lo, tol)) THEN Num(1) ELSE Num(0)

\* C20: in buildFig1Grid every feasible cell is binary: Z_sell is 1 iff
\* profit_SM > profit_SI + 1e-8 and 0 otherwise, Z_leas is 1 iff
\* profit_LM > profit_LI + 1e-8 and 0 otherwise (older snapshot: one matrix Z,
\* 1 iff profit_SM > profit_SI + 1e-6); an exact tie yields 0.
Fig1Binary ==
  /\ (phase = "done" /\ call.fn = "buildFig1Grid") =>
       \A ij \in Fig1FeasibleCells :
         LET m == Fig1CellModel(ij[1], ij[2])
         IN /\ ret.Z_sell[ij[1]][ij[2]]
                 = AboveBy(profit_SM(m), profit_SI(m), QFrac(1, 100000000))
            /\ ret.Z_leas[ij[1]][ij[2]]
                 = AboveBy(profit_LM(m), profit_LI(m), QFrac(1, 100000000))
            /\ QEq(profit_SM(m), profit_SI(m)) => ret.Z_sell[ij[1]][ij[2]] = Num(0)
            /\ QEq(profit_LM(m), profit_LI(m)) => ret.Z_leas[ij[1]][ij[2]] = Num(0)
  /\ (phase = "done" /\ call.fn = "buildFig1Grid_old") =>
       \A ij \in Fig1FeasibleCells :
         LET m == Fig1CellModel(ij[1], ij[2])
         IN /\ ret.Z[ij[1]][ij[2]]
                 = AboveBy(profit_SM(m), profit_SI(m), QFrac(1, 1000000))
            /\ QEq(profit_SM(m), profit_SI(m)) => ret.Z[ij[1]][ij[2]] = Num(0)

\* a finished buildFig1Grid call with a feasible cell where modular and
\* integral selling tie exactly and the cell is 0, and a feasible cell where
\* modular selling wins and the cell is 1
Fig1BinaryWitness ==
  /\ phase = "done"
  /\ call.fn = "buildFig1Grid"
  /\ \E ij \in Fig1FeasibleCells :
       /\ QEq(profit_SM(Fig1CellModel(ij[1], ij[2])),
              profit_SI(Fig1CellModel(ij[1], ij[2])))
       /\ ret.Z_sell[ij[1]][ij[2]] = Num(0)
  /\ \E ij \in Fig1FeasibleCells : ret.Z_sell[ij[1]][ij[2]] = Num(1)

\* min(gamma*d, 0.999) by cases
Clamped(gamma, d) ==
  IF RLt(RMul(gamma, d), R(999, 1000)) THEN RMul(gamma, d) ELSE R(999, 1000)

\* C21: for d1, d2 in (0,1) and every gamma the constructed model has
\* d1L = min(gamma*d1, 0.999) and d2L = min(gamma*d2, 0.999), so d1L <= 0.999,
\* d2L <= 0.999, d_sum_L = d1L + d2L < 2 and C_LI = (2 - d_sum_L)/8 > 0, while
\* d_sum_S = d1 + d2 is not clamped.
LeasingClamp ==
  (/\ SinglePoint
   /\ RLt(RInt(0), call.d1) /\ RLt(call.d1, RInt(1))
   /\ RLt(RInt(0), call.d2) /\ RLt(call.d2, RInt(1)))
  => /\ CallModel.d1L = Clamped(call.gamma, call.d1)
     /\ CallModel.d2L = Clamped(call.gamma, call.d2)
     /\ RGe(R(999, 1000), CallModel.d1L)
     /\ RGe(R(999, 1000), CallModel.d2L)
     /\ CallModel.d_sum_L = RAdd(CallModel.d1L, CallModel.d2L)
     /\ RLt(CallModel.d_sum_L, RInt(2))
     /\ RGt(RDiv(RSub(RInt(2), CallModel.d_sum_L), RInt(8)), RInt(0))
     /\ CallModel.d_sum_S = RAdd(call.d1, call.d2)

\* a finished single-point call with gamma = 1.5, d1 = 0.9, d2 = 0.6: gamma*d1
\* = 1.35 is clamped to 0.999, gamma*d2 = 0.9 is not, d_sum_S stays 1.5
LeasingClampWitness ==
  /\ SinglePoint
  /\ call.gamma = R(3, 2) /\ call.d1 = R(9, 10) /\ call.d2 = R(6, 10)
  /\ RGt(RMul(call.gamma, call.d1), RInt(1))
  /\ CallModel.d1L = R(999, 1000)
  /\ CallModel.d2L = R(9, 10)
  /\ CallModel.d_sum_S = R(3, 2)
  /\ QIsFinite(ret.singleProfits.LI)

(***************************************************************************)
(* The page (Home): its React state as the parameter object that the       *)
(* gridData memo hands to the builder of the selected figure.  The range   *)
(* inputs move in steps of 0.01.                                           *)
(***************************************************************************)
\* switch (figure) of the gridData memo: the builder a figure calls
FigureBuilder(figure) ==
  CASE figure = "fig1" -> "buildFig1Grid"
    [] figure = "fig2" -> "buildFig2Grid"
    [] figure = "fig3" -> "buildFig3Grid"
    [] figure = "fig4" -> "buildFig4Grid"
    [] figure = "fig5" -> "buildFig5Grid"
    [] figure = "fig6" -> "buildFig6Data"
    [] figure = "table" -> "buildGridResults"
    [] OTHER -> "buildFig1Grid"

\* the useState defaults: d1 = 0.5, d2 = 0.2, gamma = 1.0, c = 0.15, k = 0.0,
\* resolution = 48, figure = 'fig1'
PageInit ==
  /\ call = Params(FigureBuilder("fig1"), R(5, 10), R(2, 10), RInt(1), R(15, 100),
                   RInt(0), 48, R(1, 100), R(15, 100), 20)
  /\ phase = "page"
  /\ ret = NoRet
  /\ evals = 0

\* the d1 range input: min 0.05, max 0.99, step 0.01; onChange calls setD1
SetD1 ==
  \E h \in 5..99 :
    /\ phase = "page"
    /\ call' = [call EXCEPT !.d1 = R(h, 100)]
    /\ UNCHANGED <<phase, ret, evals>>

\* the d2 range input: min 0.01, max Math.min(0.98, d1 - 0.01), step 0.01;
\* onChange calls setD2
SetD2 ==
  \E h \in 1..98 :
    /\ phase = "page"
    /\ RGe(RMin(R(98, 100), RSub(call.d1, R(1, 100))), R(h, 100))
    /\ call' = [call EXCEPT !.d2 = R(h, 100)]
    /\ UNCHANGED <<phase, ret, evals>>

\* the two durability sliders; the other controls leave d1 and d2 alone
PageNext == SetD1 \/ SetD2

PageSpec == PageInit /\ [][PageNext]_vars

\* C22: from the default state (d1 = 0.5, d2 = 0.2), after any sequence of
\* slider events (setD1 with a value in [0.05, 0.99], setD2 with a value in
\* [0.01, min(0.98, d1 - 0.01)]) the (d1, d2) the page passes to the grid
\* builders satisfies d2 < d1.
PageOrdered ==
  phase = "page" => RLt(call.d2, call.d1)

\* the set of strategy labels a finished buildFig6Data call reports
Fig6Labels ==
  {ret.out[g].strategies[s] : g \in DOMAIN ret.out, s \in 0..(call.steps - 1)}

\* C23: in buildFig6Data with steps >= 2 the winning-strategy label of every
\* gamma and every base cost is 'SM' or 'LM', never 'SI' or 'LI' (the label
\* reduction gives a tie to the later key, and profit_SM >= profit_SI and
\* profit_LM >= profit_LI).
Fig6ModularLabels ==
  (phase = "done" /\ call.fn = "buildFig6Data" /\ call.steps >= 2)
  => Fig6Labels \subseteq {"SM", "LM"}

\* the model object buildFig6Data constructs at the pair it reports for
\* series g and base cost s
Fig6WinnerModel(g, s) ==
  CircularEconomyModel(ret.out[g].opt_d1[s], ret.out[g].opt_d2[s], ret.out[g].gamma,
    RAdd(ret.out[g].c0_vals[s],
         RAdd(RMul(R(8, 100), RMul(ret.out[g].opt_d1[s], ret.out[g].opt_d1[s])),
              RMul(R(16, 100), RMul(ret.out[g].opt_d2[s], ret.out[g].opt_d2[s])))),
    RInt(0))

\* a finished two-step sweep that reports both labels, with an entry labelled
\* 'LM' at whose pair leasing-integral ties with leasing-modular for the
\* maximum
Fig6ModularLabelsWitness ==
  /\ phase = "done"
  /\ call.fn = "buildFig6Data"
  /\ call.steps = 2
  /\ Fig6Labels = {"SM", "LM"}
  /\ \E g \in DOMAIN ret.out : \E s \in 0..1 :
       /\ ret.out[g].strategies[s] = "LM"
       /\ QEq(profit_LM(Fig6WinnerModel(g, s)), profit_LI(Fig6WinnerModel(g, s)))
       /\ QGe(profit_LM(Fig6WinnerModel(g, s)), profit_SM(Fig6WinnerModel(g, s)))

\* 1 if hi > lo (strict), else 0
Wins(hi, lo) == IF QGt(hi, lo) THEN 1 ELSE 0

\* the cells <<g, i, j>> of a buildFig2Grid result that are not masked
Fig2FeasibleCells ==
  {t \in (DOMAIN ret.results) \X (DOMAIN ret.yAxis) \X (DOMAIN ret.xAxis) :
     ~RGe(ret.yAxis[t[2]], ret.xAxis[t[3]])}

\* the codes of the feasible cells of a finished buildFig2Grid call
Fig2CodesSeen ==
  IF phase = "done" /\ call.fn = "buildFig2Grid"
  THEN {ret.results[t[1]].Z[t[2]][t[3]] : t \in Fig2FeasibleCells}
  ELSE {}

\* C24: in buildFig2Grid, for each gamma of [0.8, 1.2] and every feasible
\* cell, the code is 2*arch_S + arch_L with arch_S = 1 iff profit_SM >
\* profit_SI and arch_L = 1 iff profit_LM > profit_LI (strict, k = 0), and so
\* lies in {0, 1, 2, 3}.
Fig2SwitchCode ==
  (phase = "done" /\ call.fn = "buildFig2Grid") =>
    /\ [g \in DOMAIN ret.results |-> ret.results[g].gamma] = <<R(8, 10), R(12, 10)>>
    /\ \A t \in Fig2FeasibleCells :
         LET m == CircularEconomyModel(ret.xAxis[t[3]], ret.yAxis[t[2]],
                                       ret.results[t[1]].gamma, call.c, RInt(0))
         IN /\ ret.results[t[1]].Z[t[2]][t[3]]
                 = Num(2 * Wins(profit_SM(m), profit_SI(m))
                       + Wins(profit_LM(m), profit_LI(m)))
            /\ ret.results[t[1]].Z[t[2]][t[3]] \in {Num(0), Num(1), Num(2), Num(3)}

\* a finished buildFig2Grid call on a 3 x 3 grid with a cell where modular
\* wins under selling only (code 2) and a cell where it wins under both (code 3)
Fig2SwitchCodeWitness ==
  /\ call.resolution = 3
  /\ Num(2) \in Fig2CodesSeen
  /\ Num(3) \in Fig2CodesSeen

\* integration costs of [0, 0.05] the call's own k is compared with
KGrid == {RInt(0), R(1, 100), R(2, 100), R(5, 100)}

\* the four profits of the call's snapshot at the call's d1, d2, gamma, c and
\* the integration cost kk
ProfitsAtK(kk) ==
  FourProfits(IF call.fn = "buildGridResults_old" THEN "buildJointChoiceGrid"
              ELSE call.fn,
              CircularEconomyModel(call.d1, call.d2, call.gamma, call.c, kk))

\* C25: for fixed d1, d2, gamma and c, raising the integration cost k over
\* [0, 0.05] never raises a profit: profit_SM and profit_LM are non-increasing
\* in k, and profit_SI and profit_LI do not depend on k.
MonotoneInK ==
  SinglePoint =>
    \A kk \in KGrid :
      LET P == ProfitsAtK(kk)
      IN /\ QEq(P[1], ret.singleProfits.SI)
         /\ QEq(P[2], ret.singleProfits.LI)
         /\ RLt(call.k, kk) =>
              /\ QLe(P[3], ret.singleProfits.SM)
              /\ QLe(P[4], ret.singleProfits.LM)
         /\ RLt(kk, call.k) =>
              /\ QGe(P[3], ret.singleProfits.SM)
              /\ QGe(P[4], ret.singleProfits.LM)

\* a finished single-point call with k = 0.05 whose profit_SM and profit_LM
\* are strictly below their values at k = 0
MonotoneInKWitness ==
  /\ SinglePoint
  /\ call.fn = "buildGridResults"
  /\ call.k = R(5, 100)
  /\ QLt(ret.singleProfits.SM, ProfitsAtK(RInt(0))[3])
  /\ QLt(ret.singleProfits.LM, ProfitsAtK(RInt(0))[4])
  /\ QEq(ret.singleProfits.SI, ProfitsAtK(RInt(0))[1])

\* the unit revenues profit_LM computes at the lattice point t / M for the
\* model m (numerators over 2*D*M, D the common denominator of d1L and d2L)
LMRevenues(m, M, t) ==
  LM_point(m.d1L.n * (Lcm(m.d1L.d, m.d2L.d) \div m.d1L.d),
           m.d2L.n * (Lcm(m.d1L.d, m.d2L.d) \div m.d2L.d),
           Lcm(m.d1L.d, m.d2L.d),
           m.c.n * (Lcm(m.c.d, m.k.d) \div m.c.d),
           m.k.n * (Lcm(m.c.d, m.k.d) \div m.k.d),
           Lcm(m.c.d, m.k.d),
           M,
           Lcm(2 * Lcm(m.d1L.d, m.d2L.d) * M * M, Lcm(m.c.d, m.k.d) * M),
           t[1], t[2], t[3])

\* the lattice size of the leasing-modular search of the call's snapshot
CallLMSize ==
  IF call.fn = "buildGridResults" THEN steps_LM - 1 ELSE steps_LM_old - 1

\* C26: at every lattice point the leasing-modular search accepts
\* (Lun + Luu <= Lnn and Lnn + Lun + Luu < 1), for every valid parameter
\* tuple, the unit revenues satisfy 0 <= ruu <= run <= rnn (both snapshots).
RevenuesOrdered ==
  ValidPoint =>
    \A t \in LMAdmissible(CallLMSize) :
      LET r == LMRevenues(CallModel, CallLMSize, t)
      IN 0 <= r.ruu /\ r.ruu <= r.run /\ r.run <= r.rnn

\* a finished single-point call with gamma*d1 clamped to 0.999 whose accepted
\* point (Lnn, Lun, Luu) = (6, 3, 2)/15 has 0 < ruu < run < rnn, and whose
\* leasing-modular profit is positive
RevenuesOrderedWitness ==
  /\ ValidPoint
  /\ call.fn = "buildGridResults"
  /\ CallModel.d1L = R(999, 1000)
  /\ <<6, 3, 2>> \in LMAdmissible(CallLMSize)
  /\ LET r == LMRevenues(CallModel, CallLMSize, <<6, 3, 2>>)
     IN 0 < r.ruu /\ r.ruu < r.run /\ r.run < r.rnn
  /\ QGt(ret.singleProfits.LM, QZero)

====
